---- MODULE Spec2Model ----
(***************************************************************************)
(* A model of the Hodgkin-Huxley gating core of moose-core:                *)
(*   HHGate       table-backed gate            (src/unnamed/part_006)      *)
(*   HHGateF      formula gate, one input      (src/unnamed/part_007)      *)
(*   HHGateF2D    formula gate, two inputs     (src/biophysics/HHGateF2D)  *)
(*   HHChannelF2D channel composing the gates  (src/biophysics/HHChannelF2D)*)
(*                                                                         *)
(* A C++ double is modelled as an extended rational <<n, d>>: d > 0 and    *)
(* gcd(n, d) = 1 for a finite value, <<1, 0>> for +Inf, <<-1, 0>> for -Inf *)
(* and <<0, 0>> for NaN, with the IEEE-754 rules for the exceptional       *)
(* values (signed zeros and rounding are not modelled).                    *)
(***************************************************************************)
EXTENDS Integers, Sequences, FiniteSets, TLC

VARIABLES
    hh,       \* the HHGate under study (a record of its data members)
    gf,       \* the HHGateF under study
    chan,     \* channel id -> HHChannelF2D record (or NoChan)
    heap,     \* gate id -> HHGateF2D record; alive = FALSE once deleted
    ndebug,   \* TRUE: the build defines NDEBUG, so assert() is compiled out
    aborted,  \* TRUE once a failed assert() or a crash has ended the process
    last,     \* the last operation performed, its inputs, results and pre-state
    steps     \* number of operations performed since Init

vars == <<hh, gf, chan, heap, ndebug, aborted, last, steps>>

-----------------------------------------------------------------------------
(* Extended rational arithmetic (IEEE-754 double, exact)                   *)

Abs(n) == IF n < 0 THEN -n ELSE n

Sgn(n) == IF n < 0 THEN -1 ELSE IF n > 0 THEN 1 ELSE 0

RECURSIVE GCD(_, _)
GCD(a, b) == IF b = 0 THEN a ELSE GCD(b, a % b)

Norm(n, d) ==
    IF d = 0 THEN <<Sgn(n), 0>>
    ELSE LET g == GCD(Abs(n), Abs(d))
             s == IF d < 0 THEN -1 ELSE 1
         IN  <<(s * n) \div g, (s * d) \div g>>

R(n) == <<n, 1>>

NaN == <<0, 0>>

PInf == <<1, 0>>

NInf == <<-1, 0>>

isnan(x) == x = NaN

isinf(x) == x[2] = 0 /\ x[1] # 0

Finite(x) == x[2] # 0

Neg(a) == <<-a[1], a[2]>>

Add(a, b) ==
    IF a[2] = 0 /\ b[2] = 0
    THEN (IF a = b THEN a ELSE NaN)
    ELSE Norm(a[1] * b[2] + b[1] * a[2], a[2] * b[2])

Sub(a, b) == Add(a, Neg(b))

Mul(a, b) == Norm(a[1] * b[1], a[2] * b[2])

Inv(a) ==
    IF a[2] = 0 THEN (IF a[1] = 0 THEN NaN ELSE R(0))
    ELSE IF a[1] = 0 THEN PInf
    ELSE Norm(a[2], a[1])

Div(a, b) == Mul(a, Inv(b))

Lt(a, b) ==
    /\ ~isnan(a)
    /\ ~isnan(b)
    /\ IF a[2] = 0 THEN a = NInf /\ b # NInf
       ELSE IF b[2] = 0 THEN b = PInf
       ELSE a[1] * b[2] < b[1] * a[2]

Le(a, b) == Lt(a, b) \/ (a = b /\ ~isnan(a))

fabs(a) == <<Abs(a[1]), a[2]>>

\* floor of a finite value
Floor(a) == a[1] \div a[2]

\* static_cast<unsigned int>(double) is defined only for a finite value > -1
\* (it truncates toward zero); anything else is undefined behaviour.
CastDefined(a) == Finite(a) /\ Lt(R(-1), a)

ToUInt(a) == IF a[1] < 0 THEN 0 ELSE a[1] \div a[2]

\* std::exp, replaced by a rational stand-in that keeps exp(0) = 1,
\* exp(-u) = 1/exp(u), positivity and monotonicity: the (1,1) Pade approximant
\* on [-1, 1], continued linearly outside.
Exp(u) ==
    IF isnan(u) THEN NaN
    ELSE IF u = PInf THEN PInf
    ELSE IF u = NInf THEN R(0)
    ELSE IF Lt(R(1), u) THEN Mul(R(3), u)
    ELSE IF Lt(u, R(-1)) THEN Inv(Mul(R(3), Neg(u)))
    ELSE Div(Add(R(2), u), Sub(R(2), u))

\* What a read outside an array, or of freed or uninitialised memory, may yield.
Garbage == {R(0), R(7), NaN}

-----------------------------------------------------------------------------
(* HHGate: the table-backed gate                                            *)

\* static const double SINGULARITY = 1.0e-6, as the exponent of 1/10^6
SINGULARITY_DIGITS == 6

RECURSIVE Pow10(_)
Pow10(k) == IF k = 0 THEN 1 ELSE 10 * Pow10(k - 1)

SINGULARITY == <<1, Pow10(SINGULARITY_DIGITS)>>

\* The element ids through which the gate's fields are reached: the channel
\* that created the gate, and a copy of that channel.
OwnerId == "chan"

CopyId == "copy"

Callers == {OwnerId, CopyId}

\* HHGate::HHGate(Id originalChanId, Id originalGateId)
HHGateInit ==
    [ originalChanId_ |-> OwnerId,
      A_ |-> <<R(0)>>, B_ |-> <<R(0)>>,
      xmin_ |-> R(0), xmax_ |-> R(1), invDx_ |-> R(1),
      form_ |-> 0, alphaExpr_ |-> "", betaExpr_ |-> "",
      lookupByInterpolation_ |-> FALSE, isDirectTable_ |-> FALSE,
      alpha_ |-> <<>>, beta_ |-> <<>>, tau_ |-> <<>>, mInfinity_ |-> <<>> ]

\* HHGateBase::checkOriginal: TRUE only for the channel that created the gate;
\* otherwise it warns and the caller does nothing.
checkOriginal(g, id) == id = g.originalChanId_

\* std::vector<double>::resize: truncate, or extend with 0.0
Resize(tab, n) ==
    [i \in 1..n |-> IF i <= Len(tab) THEN tab[i] ELSE R(0)]

\* tab[i] for a C++ index i (0-based); outside the vector the read is undefined
\* and yields gb.
At(tab, i, gb) == IF i >= 0 /\ i < Len(tab) THEN tab[i + 1] ELSE gb

\* tab[i] = x for a C++ index i; a write outside the vector does not reach the
\* vector's elements.
Put(tab, i, x) == IF i >= 0 /\ i < Len(tab) THEN [tab EXCEPT ![i + 1] = x] ELSE tab

Ok(g) == [g |-> g, ab |-> FALSE]

Dead(g) == [g |-> g, ab |-> TRUE]

\* The argument of the unsigned cast in lookupTable and lookupBoth
LookupPos(g, v) == Mul(Sub(v, g.xmin_), g.invDx_)

\* The value of HHGate::lookupTable(tab, v); gb stands for the undefined reads.
lookupTable(g, tab, v, gb) ==
    IF Le(v, g.xmin_) THEN tab[1]
    ELSE IF Le(g.xmax_, v) THEN tab[Len(tab)]
    ELSE IF ~CastDefined(LookupPos(g, v)) THEN gb
    ELSE LET index == ToUInt(LookupPos(g, v))
             frac == Mul(Sub(Sub(v, g.xmin_), Div(R(index), g.invDx_)), g.invDx_)
         IN  IF g.lookupByInterpolation_
             THEN Add(Mul(At(tab, index, gb), Sub(R(1), frac)),
                      Mul(At(tab, index + 1, gb), frac))
             ELSE At(tab, index, gb)

\* assert(tab.size() > index) in lookupTable fails
lookupTableAssertFails(g, tab, v) ==
    /\ ~Le(v, g.xmin_)
    /\ ~Le(g.xmax_, v)
    /\ g.lookupByInterpolation_
    /\ CastDefined(LookupPos(g, v))
    /\ ~(Len(tab) > ToUInt(LookupPos(g, v)))

lookupA(g, v, gb) == lookupTable(g, g.A_, v, gb)

lookupB(g, v, gb) == lookupTable(g, g.B_, v, gb)

\* A lookupBoth that never interpolates and reads the first entry at the top
lookupBothDirectOnly(g, v, gb) ==
    IF Le(v, g.xmin_) \/ Le(g.xmax_, v) THEN <<g.A_[1], g.B_[1]>>
    ELSE IF ~CastDefined(LookupPos(g, v)) THEN <<gb, gb>>
    ELSE <<At(g.A_, ToUInt(LookupPos(g, v)), gb), At(g.B_, ToUInt(LookupPos(g, v)), gb)>>

\* The pair (*A, *B) written by HHGate::lookupBoth
lookupBoth(g, v, gb) ==
    IF Le(v, g.xmin_) THEN <<g.A_[1], g.B_[1]>>
    ELSE IF Le(g.xmax_, v) THEN <<g.A_[Len(g.A_)], g.B_[Len(g.B_)]>>
    ELSE IF ~CastDefined(LookupPos(g, v)) THEN <<gb, gb>>
    ELSE LET index == ToUInt(LookupPos(g, v))
             frac == Mul(Sub(Sub(v, g.xmin_), Div(R(index), g.invDx_)), g.invDx_)
         IN  IF g.lookupByInterpolation_
             THEN <<Add(Mul(At(g.A_, index, gb), Sub(R(1), frac)),
                        Mul(At(g.A_, index + 1, gb), frac)),
                    Add(Mul(At(g.B_, index, gb), Sub(R(1), frac)),
                        Mul(At(g.B_, index + 1, gb), frac))>>
             ELSE <<At(g.A_, index, gb), At(g.B_, index, gb)>>

\* assert(A_.size() > index && B_.size() > index) in lookupBoth fails
lookupBothAssertFails(g, v) ==
    /\ ~Le(v, g.xmin_)
    /\ ~Le(g.xmax_, v)
    /\ CastDefined(LookupPos(g, v))
    /\ ~(Len(g.A_) > ToUInt(LookupPos(g, v)) /\ Len(g.B_) > ToUInt(LookupPos(g, v)))

\* The string expressions used in the model, with what exprtk does with each.
\* "(" does not compile; "c" names a variable that only the two-input gate binds.
ExprNames == {"1", "v", "c", "1-v", "("}

Compiles(expr, hasC) ==
    /\ expr \in {"1", "v", "c", "1-v"}
    /\ (expr = "c" => hasC)

\* The value of the compiled expression with v and c bound to the given values
EvalExpr(expr, v, c) ==
    CASE expr = "1" -> R(1)
      [] expr = "v" -> v
      [] expr = "c" -> c
      [] expr = "1-v" -> Sub(R(1), v)
      [] OTHER -> NaN

\* std::isnan(x) || std::isinf(x) || fabs(x) < SINGULARITY
Singular(x) == isnan(x) \/ isinf(x) \/ Lt(fabs(x), SINGULARITY)

\* The first index >= next whose entry is not singular, or tab.size()
RECURSIVE ScanNext(_, _)
ScanNext(tab, next) ==
    IF next < Len(tab) /\ Singular(tab[next + 1]) THEN ScanNext(tab, next + 1) ELSE next

\* for(jj = prev + 1; jj < next; ++jj) tab[jj] = tab[jj - 1] + dy
RECURSIVE FillRun(_, _, _, _, _)
FillRun(tab, jj, next, dy, gb) ==
    IF jj >= next THEN tab
    ELSE FillRun(Put(tab, jj, Add(At(tab, jj - 1, gb), dy)), jj + 1, next, dy, gb)

\* dy for the run of singular entries between prev and next
fixDy(tab, prev, next, gb) ==
    IF next >= Len(tab)
    THEN Sub(At(tab, prev, gb), At(tab, prev - 1, gb))
    ELSE Div(Sub(tab[next + 1], At(tab, prev, gb)), R(next - prev))

\* The outer loop of fixSingularities from index ii on: [tab, ab]
RECURSIVE fixLoop(_, _, _, _)
\* The body of the outer loop for a singular entry: prev = ii - 1, next found
fixRun(tab, prev, next, nd, gb) ==
    IF next >= Len(tab) /\ ~nd /\ ~(prev >= 1)
    THEN [tab |-> tab, ab |-> TRUE]
    ELSE fixLoop(FillRun(tab, prev + 1, next, fixDy(tab, prev, next, gb), gb),
                 next + 1, nd, gb)

fixLoop(tab, ii, nd, gb) ==
    IF ii >= Len(tab) THEN [tab |-> tab, ab |-> FALSE]
    ELSE IF ~Singular(tab[ii + 1]) THEN fixLoop(tab, ii + 1, nd, gb)
    ELSE fixRun(tab, ii - 1, ScanNext(tab, ii + 1), nd, gb)

fixSingularities(tab, nd, gb) == fixLoop(tab, 0, nd, gb)

\* for(i = 0; i <= newXdivs; ++i) table[i] = lookupTable(table, newXmin + i * newDx)
\* with the lookup reading the table that is being written: [tab, ab]
RECURSIVE tabFillLoop(_, _, _, _, _, _, _, _)
tabFillLoop(g, table, i, newXdivs, newXmin, newDx, nd, gb) ==
    IF i > newXdivs THEN [tab |-> table, ab |-> FALSE]
    ELSE LET v == Add(newXmin, Mul(R(i), newDx))
         IN  IF ~nd /\ lookupTableAssertFails(g, table, v)
             THEN [tab |-> table, ab |-> TRUE]
             ELSE tabFillLoop(g, Put(table, i, lookupTable(g, table, v, gb)),
                              i + 1, newXdivs, newXmin, newDx, nd, gb)

\* HHGate::tabFill on table `table` of gate g: [tab, ab]
tabFill(g, table, newXdivs, newXmin, newXmax, nd, gb) ==
    IF newXdivs < 3 THEN [tab |-> table, ab |-> FALSE]
    ELSE tabFillLoop([g EXCEPT !.lookupByInterpolation_ = TRUE],
                     Resize(table, newXdivs + 1), 0, newXdivs, newXmin,
                     Div(Sub(newXmax, newXmin), R(newXdivs)), nd, gb)

\* tabFill(A_, ...) followed by tabFill(B_, ...), as setMin, setMax and setDivs do
tabFillJoin(ga, b) == [g |-> [ga EXCEPT !.B_ = b.tab], ab |-> b.ab]

tabFillSecond(ga, aborts, newXdivs, newXmin, newXmax, nd, gb) ==
    IF aborts THEN Dead(ga)
    ELSE tabFillJoin(ga, tabFill(ga, ga.B_, newXdivs, newXmin, newXmax, nd, gb))

tabFillFirst(g, a, newXdivs, newXmin, newXmax, nd, gb) ==
    tabFillSecond([g EXCEPT !.A_ = a.tab], a.ab, newXdivs, newXmin, newXmax, nd, gb)

tabFillBoth(g, newXdivs, newXmin, newXmax, nd, gb) ==
    tabFillFirst(g, tabFill(g, g.A_, newXdivs, newXmin, newXmax, nd, gb),
                 newXdivs, newXmin, newXmax, nd, gb)

\* parms[k] for a C++ index k
P(parms, k) == parms[k + 1]

\* y(x) = (A + B * x) / temp2 with temp2 = C + exp((x + D) / F)
CurveDenom(parms, o, x) ==
    Add(P(parms, o + 2), Exp(Div(Add(x, P(parms, o + 3)), P(parms, o + 4))))

CurveNumer(parms, o, x) == Add(P(parms, o), Mul(P(parms, o + 1), x))

CurveAt(parms, o, x) == Div(CurveNumer(parms, o, x), CurveDenom(parms, o, x))

\* the average of the curve at x + dx/10 and x - dx/10
CurveHealed(parms, o, x, dx) ==
    Div(Add(CurveAt(parms, o, Add(x, Div(dx, R(10)))),
            CurveAt(parms, o, Sub(x, Div(dx, R(10))))), R(2))

CurveFlat(parms, o) == Lt(fabs(P(parms, o + 4)), SINGULARITY)

CurveSing(parms, o, x) == Lt(fabs(CurveDenom(parms, o, x)), SINGULARITY)

\* The locals temp and temp2 after the alpha section of one iteration
AlphaTemp(parms, x, dx) ==
    IF CurveFlat(parms, 0) THEN R(0)
    ELSE IF CurveSing(parms, 0, x) THEN CurveHealed(parms, 0, x, dx)
    ELSE CurveAt(parms, 0, x)

AlphaTemp2(parms, x, dx, temp2) ==
    IF CurveFlat(parms, 0) THEN temp2
    ELSE IF CurveSing(parms, 0, x) THEN CurveDenom(parms, 0, Sub(x, Div(dx, R(10))))
    ELSE CurveDenom(parms, 0, x)

\* The locals temp and temp2 after the beta section, and the entry it stores
BetaTemp(parms, x, dx, temp) ==
    IF ~CurveFlat(parms, 5) /\ CurveSing(parms, 5, x)
    THEN CurveHealed(parms, 5, x, dx) ELSE temp

BetaTemp2(parms, x, dx, temp2) ==
    IF CurveFlat(parms, 5) THEN temp2
    ELSE IF CurveSing(parms, 5, x) THEN CurveDenom(parms, 5, Sub(x, Div(dx, R(10))))
    ELSE CurveDenom(parms, 5, x)

BetaEntry(parms, x, dx) ==
    IF CurveFlat(parms, 5) THEN R(0)
    ELSE IF CurveSing(parms, 5, x) THEN CurveHealed(parms, 5, x, dx)
    ELSE CurveAt(parms, 5, x)

\* if(doTau == 0 && fabs(temp2) > SINGULARITY) B_[i] += temp
BetaFinal(doTau, bEntry, temp, temp2) ==
    IF ~doTau /\ Lt(SINGULARITY, fabs(temp2)) THEN Add(bEntry, temp) ELSE bEntry

\* The first loop of setupTables from entry i on, with the locals temp and
\* temp2 as the code carries them from section to section and from one
\* iteration to the next.
RECURSIVE setupLoop(_, _, _, _, _, _, _, _, _)
\* One iteration, given temp and temp2 as the alpha section leaves them
setupStore(A, B, x, i, xdivs, parms, dx, doTau, tempA, temp2B) ==
    setupLoop(Put(A, i, tempA),
              Put(B, i, BetaFinal(doTau, BetaEntry(parms, x, dx),
                                  BetaTemp(parms, x, dx, tempA), temp2B)),
              Add(x, dx), temp2B, i + 1, xdivs, parms, dx, doTau)

setupLoop(A, B, x, temp2, i, xdivs, parms, dx, doTau) ==
    IF i > xdivs THEN <<A, B>>
    ELSE setupStore(A, B, x, i, xdivs, parms, dx, doTau, AlphaTemp(parms, x, dx),
                    BetaTemp2(parms, x, dx, AlphaTemp2(parms, x, dx, temp2)))

\* The second loop of setupTables (doTau): A = inf/tau, B = 1/tau
RECURSIVE tauLoop(_, _, _, _, _)
tauLoop(A, B, i, prevAentry, prevBentry) ==
    IF i >= Len(A) THEN <<A, B>>
    ELSE LET temp == A[i + 1]
             temp2 == B[i + 1]
             a == IF Lt(fabs(temp), SINGULARITY) THEN prevAentry ELSE Div(temp2, temp)
             b == IF Lt(fabs(temp), SINGULARITY) THEN prevBentry ELSE Div(R(1), temp)
         IN  tauLoop(Put(A, i, a), Put(B, i, b), i + 1, a, b)

\* HHGate::setupTables
setupPut(g1, ab) == Ok([g1 EXCEPT !.A_ = ab[1], !.B_ = ab[2], !.form_ = 0])

setupSecond(g1, ab, doTau) ==
    IF doTau THEN setupPut(g1, tauLoop(ab[1], ab[2], 0, R(0), R(0)))
    ELSE setupPut(g1, ab)

setupResized(g1, parms, doTau, nd, xdivs) ==
    IF ~nd /\ ~Lt(g1.xmin_, g1.xmax_) THEN Dead(g1)
    ELSE setupSecond([g1 EXCEPT !.invDx_ = Div(R(xdivs), Sub(g1.xmax_, g1.xmin_))],
                     setupLoop(g1.A_, g1.B_, g1.xmin_, R(0), 0, xdivs, parms,
                               Div(Sub(g1.xmax_, g1.xmin_), R(xdivs)), doTau),
                     doTau)

setupTables(g, parms, doTau, nd) ==
    IF Lt(P(parms, 10), R(1)) THEN Ok(g)
    ELSE setupResized([g EXCEPT !.A_ = Resize(@, ToUInt(P(parms, 10)) + 1),
                                !.B_ = Resize(@, ToUInt(P(parms, 10)) + 1),
                                !.xmin_ = P(parms, 11), !.xmax_ = P(parms, 12)],
                      parms, doTau, nd, ToUInt(P(parms, 10)))

\* HHGate::updateTables
updateTables(g, nd) ==
    IF Len(g.alpha_) = 0 \/ Len(g.beta_) = 0 THEN Ok(g)
    ELSE setupTables(g, g.alpha_ \o g.beta_ \o <<R(Len(g.A_)), g.xmin_, g.xmax_>>,
                     FALSE, nd)

\* HHGate::setAlpha and HHGate::setBeta (the 5-coefficient vectors)
setAlpha(g, id, val, nd) ==
    IF Len(val) # 5 THEN Ok(g)
    ELSE IF checkOriginal(g, id) THEN updateTables([g EXCEPT !.alpha_ = val], nd)
    ELSE Ok(g)

setBeta(g, id, val, nd) ==
    IF Len(val) # 5 THEN Ok(g)
    ELSE IF checkOriginal(g, id) THEN updateTables([g EXCEPT !.beta_ = val], nd)
    ELSE Ok(g)

\* HHGate::setTau and HHGate::setMinfinity (fields tau, inf and mInfinity)
setTau(g, id, val, nd) ==
    IF Len(val) # 5 THEN Ok(g)
    ELSE IF checkOriginal(g, id) THEN updateTables([g EXCEPT !.tau_ = val], nd)
    ELSE Ok(g)

setMinfinity(g, id, val, nd) ==
    IF Len(val) # 5 THEN Ok(g)
    ELSE IF checkOriginal(g, id) THEN updateTables([g EXCEPT !.mInfinity_ = val], nd)
    ELSE Ok(g)

\* The loop of tabFillExpr over ii = 0..xdivs
RECURSIVE exprLoop(_, _, _, _, _, _)
exprLoop(g, A, B, ii, xdivs, dv) ==
    IF ii > xdivs THEN <<A, B>>
    ELSE LET v == Add(g.xmin_, Mul(R(ii), dv))
             a == EvalExpr(g.alphaExpr_, v, NaN)
             b == EvalExpr(g.betaExpr_, v, NaN)
         IN  IF g.form_ = 1
             THEN exprLoop(g, Put(A, ii, a), Put(B, ii, Add(b, a)), ii + 1, xdivs, dv)
             ELSE exprLoop(g, Put(A, ii, Div(b, a)), Put(B, ii, Div(R(1), a)),
                           ii + 1, xdivs, dv)

\* HHGate::tabFillExpr. The element it is invoked through is not consulted.
exprDone(g2, fb) == [g |-> [g2 EXCEPT !.B_ = fb.tab], ab |-> fb.ab]

exprFixB(g1, fa, B, nd, gb) ==
    IF fa.ab THEN Dead([g1 EXCEPT !.A_ = fa.tab, !.B_ = B])
    ELSE exprDone([g1 EXCEPT !.A_ = fa.tab], fixSingularities(B, nd, gb))

exprFix(g1, ab, nd, gb) == exprFixB(g1, fixSingularities(ab[1], nd, gb), ab[2], nd, gb)

exprFill(g1, xdivs, nd, gb) ==
    exprFix(g1, exprLoop(g1, g1.A_, g1.B_, 0, xdivs,
                         Div(Sub(g1.xmax_, g1.xmin_), R(xdivs))), nd, gb)

tabFillExpr(g, id, nd, gb) ==
    IF g.form_ = 0 THEN Ok(g)
    ELSE IF g.alphaExpr_ = "" THEN Ok(g)
    ELSE IF ~Compiles(g.alphaExpr_, FALSE) THEN Ok(g)
    ELSE IF ~Compiles(g.betaExpr_, FALSE) THEN Ok(g)
    ELSE IF ~nd /\ Len(g.A_) # Len(g.B_) THEN Dead(g)
    ELSE exprFill([g EXCEPT !.invDx_ = Div(R(Len(g.A_) - 1), Sub(g.xmax_, g.xmin_))],
                  Len(g.A_) - 1, nd, gb)

\* HHGate::setAlphaExpr, setBetaExpr, setTauExpr, setInfExpr
setAlphaExpr(g, id, expr) ==
    IF checkOriginal(g, id) THEN [g EXCEPT !.form_ = 1, !.alphaExpr_ = expr] ELSE g

setBetaExpr(g, id, expr) ==
    IF checkOriginal(g, id) THEN [g EXCEPT !.form_ = 1, !.betaExpr_ = expr] ELSE g

setTauExpr(g, id, expr) ==
    IF checkOriginal(g, id) THEN [g EXCEPT !.form_ = 2, !.alphaExpr_ = expr] ELSE g

setInfExpr(g, id, expr) ==
    IF checkOriginal(g, id) THEN [g EXCEPT !.form_ = 2, !.betaExpr_ = expr] ELSE g

\* HHGate::setMin
setMin(g, id, val, nd, gb) ==
    IF ~checkOriginal(g, id) THEN Ok(g)
    ELSE LET g1 == [g EXCEPT !.xmin_ = val]
             xdivs == Len(g.A_) - 1
         IN  IF g1.isDirectTable_ /\ xdivs > 0
             THEN tabFillBoth([g1 EXCEPT !.invDx_ = Div(R(xdivs), Sub(g1.xmax_, val))],
                              xdivs, val, g1.xmax_, nd, gb)
             ELSE updateTables(g1, nd)

\* HHGate::setMax
setMax(g, id, val, nd, gb) ==
    IF ~checkOriginal(g, id) THEN Ok(g)
    ELSE LET g1 == [g EXCEPT !.xmax_ = val]
             xdivs == Len(g.A_) - 1
         IN  IF g1.isDirectTable_ /\ xdivs > 0
             THEN tabFillBoth([g1 EXCEPT !.invDx_ = Div(R(xdivs), Sub(val, g1.xmin_))],
                              xdivs, g1.xmin_, val, nd, gb)
             ELSE updateTables(g1, nd)

\* HHGate::setDivs
setDivs(g, id, val, nd, gb) ==
    IF ~checkOriginal(g, id) THEN Ok(g)
    ELSE IF g.isDirectTable_
    THEN tabFillBoth([g EXCEPT !.invDx_ = Div(R(val), Sub(g.xmax_, g.xmin_))],
                     val, g.xmin_, g.xmax_, nd, gb)
    ELSE updateTables([g EXCEPT !.A_ = Resize(@, val + 1), !.B_ = Resize(@, val + 1),
                                !.invDx_ = Div(R(val), Sub(g.xmax_, g.xmin_))], nd)

\* HHGate::setTableA
setTableA(g, id, v) ==
    IF Len(v) < 2 THEN g
    ELSE IF checkOriginal(g, id)
    THEN [g EXCEPT !.isDirectTable_ = TRUE, !.A_ = v,
                   !.invDx_ = Div(R(Len(v) - 1), Sub(g.xmax_, g.xmin_)), !.form_ = 0]
    ELSE g

\* HHGate::setTableB
setTableB(g, id, v) ==
    IF ~checkOriginal(g, id) THEN g
    ELSE IF Len(g.A_) # Len(v) THEN [g EXCEPT !.isDirectTable_ = TRUE]
    ELSE [g EXCEPT !.isDirectTable_ = TRUE, !.B_ = v, !.form_ = 0]

\* HHGate::setUseInterpolation
setUseInterpolation(g, id, val) ==
    IF checkOriginal(g, id) THEN [g EXCEPT !.lookupByInterpolation_ = val] ELSE g

\* HHGate::setupAlpha (also the setter of the field alphaParms)
setupAlphaDone(r, parms) ==
    IF r.ab THEN r
    ELSE Ok([r.g EXCEPT !.alpha_ = SubSeq(parms, 1, 5),
                        !.beta_ = SubSeq(parms, 6, 10), !.form_ = 0])

setupAlpha(g, id, parms, nd) ==
    IF ~checkOriginal(g, id) THEN Ok(g)
    ELSE IF Len(parms) # 13 THEN Ok(g)
    ELSE setupAlphaDone(setupTables(g, parms, FALSE, nd), parms)

\* HHGate::getAlphaParms
getAlphaParms(g) == g.alpha_ \o g.beta_ \o <<R(Len(g.A_)), g.xmin_, g.xmax_>>

\* HHGate::setupTau
setupTauDone(r) == IF r.ab THEN r ELSE Ok([r.g EXCEPT !.form_ = 0])

setupTau(g, id, parms, nd) ==
    IF ~checkOriginal(g, id) THEN Ok(g)
    ELSE IF Len(parms) # 13 THEN Ok(g)
    ELSE setupTauDone(setupTables(g, parms, TRUE, nd))

\* HHGate::tweakTables(0): B_[i] = A_[i] + B_[i] for i < A_.size()
RECURSIVE tweakLoop(_, _, _, _)
tweakLoop(A, B, i, gb) ==
    IF i >= Len(A) THEN B
    ELSE tweakLoop(A, Put(B, i, Add(A[i + 1], At(B, i, gb))), i + 1, gb)

\* for(i = 0; i <= size; i++) of setupGate; x is not advanced by the loop
RECURSIVE gateLoop(_, _, _, _, _, _)
gateEntry(ip, i, parms, x, temp2, gb) ==
    IF Lt(fabs(P(parms, 4)), SINGULARITY) THEN R(0)
    ELSE IF Lt(fabs(temp2), SINGULARITY) THEN At(ip, i - 1, gb)
    ELSE Div(Add(P(parms, 0), Mul(P(parms, 1), x)), temp2)

gateLoop(ip, i, size, parms, x, gb) ==
    IF i > size THEN ip
    ELSE gateLoop(Put(ip, i, gateEntry(ip, i, parms, x, CurveDenom(parms, 0, x), gb)),
                  i + 1, size, parms, x, gb)

\* The isBeta tail of setupGate: tabFill of the shorter table, then tweakTables(0)
gateTweak(g2, aborts, nd, gb) ==
    IF aborts THEN Dead(g2)
    ELSE IF ~nd /\ Len(g2.A_) # Len(g2.B_) THEN Dead(g2)
    ELSE Ok([g2 EXCEPT !.B_ = tweakLoop(g2.A_, g2.B_, 0, gb), !.form_ = 0])

gateFilledB(g1, f, nd, gb) == gateTweak([g1 EXCEPT !.B_ = f.tab], f.ab, nd, gb)

gateFilledA(g1, f, nd, gb) == gateTweak([g1 EXCEPT !.A_ = f.tab], f.ab, nd, gb)

gateBeta(g1, nd, gb) ==
    IF ~nd /\ ~(Len(g1.A_) > 0) THEN Dead(g1)
    ELSE IF Len(g1.A_) = Len(g1.B_) THEN gateTweak(g1, FALSE, nd, gb)
    ELSE IF Len(g1.A_) > Len(g1.B_)
    THEN gateFilledB(g1, tabFill(g1, g1.B_, Len(g1.A_) - 1, g1.xmin_, g1.xmax_, nd, gb),
                     nd, gb)
    ELSE gateFilledA(g1, tabFill(g1, g1.A_, Len(g1.B_) - 1, g1.xmin_, g1.xmax_, nd, gb),
                     nd, gb)

\* setupGate once the table ip has its size
gateSized(g, ip, size, parms, isBeta, nd, gb) ==
    IF isBeta
    THEN gateBeta([g EXCEPT !.B_ = gateLoop(ip, 0, size, parms,
                      Add(P(parms, 6), Div(Div(Sub(P(parms, 7), P(parms, 6)), R(size)), R(2))),
                      gb)], nd, gb)
    ELSE Ok([g EXCEPT !.A_ = gateLoop(ip, 0, size, parms,
                      Add(P(parms, 6), Div(Div(Sub(P(parms, 7), P(parms, 6)), R(size)), R(2))),
                      gb), !.form_ = 0])

gateTable(g, ip, size0, parms, isBeta, nd, gb) ==
    IF size0 <= 0
    THEN (IF Len(ip) - 1 <= 0 THEN Ok(g)
          ELSE gateSized(g, ip, Len(ip) - 1, parms, isBeta, nd, gb))
    ELSE gateSized(g, Resize(ip, size0 + 1), size0, parms, isBeta, nd, gb)

\* static_cast<int>(double), for the values the model passes
ToInt(a) == IF a[1] < 0 THEN -((-a[1]) \div a[2]) ELSE a[1] \div a[2]

\* HHGate::setupGate
setupGate(g, id, parms, nd, gb) ==
    IF ~checkOriginal(g, id) THEN Ok(g)
    ELSE IF Len(parms) # 9 THEN Ok(g)
    ELSE gateTable(g, IF P(parms, 8) # R(0) THEN g.B_ ELSE g.A_,
                   ToInt(P(parms, 5)), parms, P(parms, 8) # R(0), nd, gb)

-----------------------------------------------------------------------------
(* The HHGate state machine                                                 *)

\* Operations performed on the configured gate in one behaviour
MaxGateSteps == 1

\* Inputs of the HHGate operations
TabChoices ==
    { <<R(1), R(2)>>,
      <<R(1), R(3), R(2), R(5)>>,
      <<R(4), R(2), R(8), R(6)>> }

LookupInputs == {R(-1), R(0), <<1, 3>>, <<1, 2>>, <<5, 6>>, R(1), R(2)}

MinVals == {R(-1), R(1)}

MaxVals == {R(2), R(0)}

DivsVals == {0, 1, 3}

GateExprs == {"1", "v", "1-v", "("}

\* alpha = 1/(1 + exp(x)), beta = x/(-1 + exp(x)) (singular at x = 0), on 0..1
ParmsRegular == <<R(1), R(0), R(1), R(0), R(1)>>

ParmsSingular == <<R(0), R(1), R(-1), R(0), R(1)>>

\* a curve with F = 0, which setupTables takes as zero
ParmsFlat == <<R(1), R(0), R(1), R(0), R(0)>>

CoeffChoices == {ParmsRegular, ParmsSingular}

\* [A0..A4, B0..B4, divs, min, max]: the last two vectors have divs < 1 and
\* min > max
Parms13 ==
    { ParmsRegular \o ParmsSingular \o <<R(3), R(0), R(1)>>,
      ParmsSingular \o ParmsRegular \o <<R(3), R(0), R(1)>>,
      ParmsFlat \o ParmsRegular \o <<R(1), R(0), R(1)>>,
      ParmsRegular \o ParmsSingular \o <<R(0), R(0), R(1)>>,
      ParmsRegular \o ParmsRegular \o <<R(3), R(1), R(0)>> }

Parms9 == {ParmsRegular \o <<R(3), R(0), R(1), R(0)>>,
           ParmsRegular \o <<R(0), R(0), R(1), R(1)>>}

\* Gates as configured by their owner before the behaviour starts: each is the
\* constructor's gate taken through the handlers above.
GateWithTables(ta, tb, interp) ==
    setUseInterpolation(setTableB(setTableA(HHGateInit, OwnerId, ta), OwnerId, tb),
                        OwnerId, interp)

GateWithExprs(ea, eb, n) ==
    setBetaExpr(setAlphaExpr(setDivs(HHGateInit, OwnerId, n, TRUE, NaN).g,
                             OwnerId, ea), OwnerId, eb)

GateWithTauInf(et, ei, n) ==
    setInfExpr(setTauExpr(setDivs(HHGateInit, OwnerId, n, TRUE, NaN).g,
                          OwnerId, et), OwnerId, ei)

InitGates ==
    {HHGateInit}
    \cup {GateWithTables(ta, tb, i) :
            ta \in TabChoices, tb \in TabChoices, i \in BOOLEAN}
    \cup {GateWithExprs("1-v", "v", 3), GateWithTauInf("v", "1", 3)}
    \cup {GateWithExprs("1-v", "v", 1)}
    \cup {setBetaExpr(setAlphaExpr(setTableA(HHGateInit, OwnerId, ta), OwnerId, "1"),
                      OwnerId, "1-v") : ta \in TabChoices}
    \cup {setupAlpha(HHGateInit, OwnerId, p, TRUE).g : p \in Parms13}

NoOp == [op |-> "none", caller |-> OwnerId, arg |-> <<>>, ret |-> <<>>, pre |-> <<>>]

\* One operation on the gate: o is its outcome [g, ab]
GateStep(op, caller, arg, o, ret) ==
    /\ ~aborted
    /\ steps < MaxGateSteps
    /\ hh' = o.g
    /\ aborted' = o.ab
    /\ last' = [op |-> op, caller |-> caller, arg |-> arg, ret |-> ret, pre |-> hh]
    /\ steps' = steps + 1
    /\ UNCHANGED <<gf, chan, heap, ndebug>>

G_lookupA ==
    \E v \in LookupInputs, gb \in Garbage :
        GateStep("lookupA", OwnerId, v,
                 [g |-> hh, ab |-> ~ndebug /\ lookupTableAssertFails(hh, hh.A_, v)],
                 lookupA(hh, v, gb))

G_lookupB ==
    \E v \in LookupInputs, gb \in Garbage :
        GateStep("lookupB", OwnerId, v,
                 [g |-> hh, ab |-> ~ndebug /\ lookupTableAssertFails(hh, hh.B_, v)],
                 lookupB(hh, v, gb))

G_lookupBoth ==
    \E v \in LookupInputs, gb \in Garbage :
        GateStep("lookupBoth", OwnerId, v,
                 [g |-> hh, ab |-> ~ndebug /\ lookupBothAssertFails(hh, v)],
                 lookupBoth(hh, v, gb))

G_setAlpha ==
    \E id \in Callers, val \in CoeffChoices :
        GateStep("alpha", id, val, setAlpha(hh, id, val, ndebug), <<>>)

G_setBeta ==
    \E id \in Callers, val \in CoeffChoices :
        GateStep("beta", id, val, setBeta(hh, id, val, ndebug), <<>>)

G_setTau ==
    \E id \in Callers, val \in CoeffChoices :
        GateStep("tau", id, val, setTau(hh, id, val, ndebug), <<>>)

G_setMinfinity ==
    \E id \in Callers, val \in CoeffChoices :
        GateStep("inf", id, val, setMinfinity(hh, id, val, ndebug), <<>>)

G_setAlphaExpr ==
    \E id \in Callers, e \in GateExprs :
        GateStep("alphaExpr", id, e, Ok(setAlphaExpr(hh, id, e)), <<>>)

G_setBetaExpr ==
    \E id \in Callers, e \in GateExprs :
        GateStep("betaExpr", id, e, Ok(setBetaExpr(hh, id, e)), <<>>)

G_setTauExpr ==
    \E id \in Callers, e \in GateExprs :
        GateStep("tauExpr", id, e, Ok(setTauExpr(hh, id, e)), <<>>)

G_setInfExpr ==
    \E id \in Callers, e \in GateExprs :
        GateStep("infExpr", id, e, Ok(setInfExpr(hh, id, e)), <<>>)

G_setMin ==
    \E id \in Callers, val \in MinVals, gb \in Garbage :
        GateStep("min", id, val, setMin(hh, id, val, ndebug, gb), <<>>)

G_setMax ==
    \E id \in Callers, val \in MaxVals, gb \in Garbage :
        GateStep("max", id, val, setMax(hh, id, val, ndebug, gb), <<>>)

G_setDivs ==
    \E id \in Callers, val \in DivsVals, gb \in Garbage :
        GateStep("divs", id, val, setDivs(hh, id, val, ndebug, gb), <<>>)

G_setTableA ==
    \E id \in Callers, v \in TabChoices :
        GateStep("tableA", id, v, Ok(setTableA(hh, id, v)), <<>>)

G_setTableB ==
    \E id \in Callers, v \in TabChoices :
        GateStep("tableB", id, v, Ok(setTableB(hh, id, v)), <<>>)

G_setUseInterpolation ==
    \E id \in Callers, val \in BOOLEAN :
        GateStep("useInterpolation", id, val, Ok(setUseInterpolation(hh, id, val)), <<>>)

G_setupAlpha ==
    \E id \in Callers, parms \in Parms13 :
        GateStep("setupAlpha", id, parms, setupAlpha(hh, id, parms, ndebug), <<>>)

G_setupTau ==
    \E id \in Callers, parms \in Parms13 :
        GateStep("setupTau", id, parms, setupTau(hh, id, parms, ndebug), <<>>)

G_setupGate ==
    \E id \in Callers, parms \in Parms9, gb \in Garbage :
        GateStep("setupGate", id, parms, setupGate(hh, id, parms, ndebug, gb), <<>>)

G_tabFillExpr ==
    \E id \in Callers, gb \in Garbage :
        GateStep("tabFillExpr", id, <<>>, tabFillExpr(hh, id, ndebug, gb), <<>>)

\* Placeholders for the parts of the state the gate machine leaves alone
IdleChannels == <<>>

IdleHeap == <<>>

IdleGateF == <<>>

InitGate ==
    /\ hh \in InitGates
    /\ gf = IdleGateF
    /\ chan = IdleChannels
    /\ heap = IdleHeap
    /\ ndebug \in BOOLEAN
    /\ aborted = FALSE
    /\ last = NoOp
    /\ steps = 0

NextGate ==
    \/ G_lookupA
    \/ G_lookupB
    \/ G_lookupBoth
    \/ G_setAlpha
    \/ G_setBeta
    \/ G_setTau
    \/ G_setMinfinity
    \/ G_setAlphaExpr
    \/ G_setBetaExpr
    \/ G_setTauExpr
    \/ G_setInfExpr
    \/ G_setMin
    \/ G_setMax
    \/ G_setDivs
    \/ G_setTableA
    \/ G_setTableB
    \/ G_setUseInterpolation
    \/ G_setupAlpha
    \/ G_setupTau
    \/ G_setupGate
    \/ G_tabFillExpr

SpecGate == InitGate /\ [][NextGate]_vars

-----------------------------------------------------------------------------
(* Claims about HHGate                                                      *)

\* The tables of g are valid in the sense of claim C1: A and B have divs + 1
\* entries, divs >= 1, min < max, invDx = divs / (max - min).
ValidTables(g) ==
    /\ Len(g.A_) >= 2
    /\ Len(g.B_) = Len(g.A_)
    /\ Finite(g.xmin_) /\ Finite(g.xmax_) /\ Lt(g.xmin_, g.xmax_)
    /\ g.invDx_ = Div(R(Len(g.A_) - 1), Sub(g.xmax_, g.xmin_))

\* The index i = floor((v - min) * invDx) of the claim, from divs, min and max
C1_Index(g, v) ==
    Floor(Div(Mul(Sub(v, g.xmin_), R(Len(g.A_) - 1)), Sub(g.xmax_, g.xmin_)))

C1_Frac(g, v) ==
    LET invDx == Div(R(Len(g.A_) - 1), Sub(g.xmax_, g.xmin_))
    IN  Mul(Sub(Sub(v, g.xmin_), Div(R(C1_Index(g, v)), invDx)), invDx)

C1_Expected(g, tab, v) ==
    IF Le(v, g.xmin_) THEN tab[1]
    ELSE IF Le(g.xmax_, v) THEN tab[Len(g.A_)]
    ELSE IF g.lookupByInterpolation_
         THEN Add(Mul(tab[C1_Index(g, v) + 1], Sub(R(1), C1_Frac(g, v))),
                  Mul(tab[C1_Index(g, v) + 2], C1_Frac(g, v)))
         ELSE tab[C1_Index(g, v) + 1]

\* C1: on a gate with valid tables, lookupBoth(v) returns (A[0], B[0]) for
\* v <= min, (A[divs], B[divs]) for v >= max, and between them the entry at
\* i = floor((v - min) * invDx), or the linear interpolation of entries i and
\* i + 1 with frac in [0, 1) when interpolation is on; lookupA and lookupB
\* return the two components.
C1_Lookup ==
    (last.op \in {"lookupA", "lookupB", "lookupBoth"} /\ ValidTables(last.pre)) =>
        /\ ~aborted
        /\ hh = last.pre
        /\ (Lt(last.pre.xmin_, last.arg) /\ Lt(last.arg, last.pre.xmax_)) =>
               /\ Le(R(0), C1_Frac(last.pre, last.arg))
               /\ Lt(C1_Frac(last.pre, last.arg), R(1))
        /\ last.op = "lookupA" => last.ret = C1_Expected(last.pre, last.pre.A_, last.arg)
        /\ last.op = "lookupB" => last.ret = C1_Expected(last.pre, last.pre.B_, last.arg)
        /\ last.op = "lookupBoth" =>
               last.ret = <<C1_Expected(last.pre, last.pre.A_, last.arg),
                            C1_Expected(last.pre, last.pre.B_, last.arg)>>

\* An interpolated lookupBoth strictly inside a cell of two different 4-entry tables
C1_Witness ==
    /\ last.op = "lookupBoth"
    /\ ValidTables(last.pre)
    /\ last.pre.lookupByInterpolation_
    /\ Len(last.pre.A_) = 4
    /\ last.pre.A_ # last.pre.B_
    /\ last.arg = <<5, 6>>
    /\ last.ret = <<Div(R(7), R(2)), R(7)>>

MutatingOps ==
    {"alpha", "beta", "tau", "inf", "alphaExpr", "betaExpr", "tauExpr", "infExpr",
     "min", "max", "divs", "tableA", "tableB", "useInterpolation",
     "setupAlpha", "setupTau", "setupGate", "tabFillExpr"}

\* What claim C2 says a foreign call leaves alone: A, B, min, max, divs, invDx,
\* form, useInterpolation and the expression strings
GateFrame(g) ==
    <<g.A_, g.B_, g.xmin_, g.xmax_, Len(g.A_) - 1, g.invDx_, g.form_,
      g.lookupByInterpolation_, g.alphaExpr_, g.betaExpr_>>

\* C2: every mutating entry point of an HHGate invoked through an element that
\* is not the gate's original owner leaves A, B, min, max, divs, invDx, form,
\* useInterpolation and the expression strings as they were.
C2_ForeignNoOp ==
    (last.op \in MutatingOps /\ last.caller # last.pre.originalChanId_) =>
        GateFrame(hh) = GateFrame(last.pre)

\* The same for every entry point but tabFillExpr
C2_ForeignNoOpOthers ==
    (last.op \in MutatingOps \ {"tabFillExpr"}
        /\ last.caller # last.pre.originalChanId_) =>
        /\ GateFrame(hh) = GateFrame(last.pre)
        /\ ~aborted

-----------------------------------------------------------------------------
(* Formula gates: HHGateF (one input) and HHGateF2D (two inputs)            *)

\* A formula gate as its constructor leaves it. The constructors initialise
\* neither tauInf_ nor the bound variables v_ and conc_: ti and gb stand for
\* what they hold. hasC tells HHGateF2D, whose symbol table has "c".
HHGateFInit(id, hasC, ti, gb) ==
    [hasC |-> hasC, originalChanId_ |-> id, alphaExpr_ |-> "", betaExpr_ |-> "",
     tauInf_ |-> ti, v_ |-> gb, conc_ |-> gb]

\* alpha_.value() and beta_.value(): the compiled expressions read v_ and conc_
AlphaValue(g) == EvalExpr(g.alphaExpr_, g.v_, g.conc_)

BetaValue(g) == EvalExpr(g.betaExpr_, g.v_, g.conc_)

\* tauInf_ ? beta_.value() / alpha_.value() : alpha_.value()
ValueA(g) == IF g.tauInf_ THEN Div(BetaValue(g), AlphaValue(g)) ELSE AlphaValue(g)

\* tauInf_ ? 1.0 / alpha_.value() : alpha_.value() + beta_.value()
ValueB(g) ==
    IF g.tauInf_ THEN Div(R(1), AlphaValue(g)) ELSE Add(AlphaValue(g), BetaValue(g))

\* HHGateF::lookupA and lookupB bind v_ and evaluate: [g, ret]
HHGateF_lookupA(g, v) == [g |-> [g EXCEPT !.v_ = v], ret |-> ValueA([g EXCEPT !.v_ = v])]

HHGateF_lookupB(g, v) == [g |-> [g EXCEPT !.v_ = v], ret |-> ValueB([g EXCEPT !.v_ = v])]

\* HHGateF::lookupBoth: *A = lookupA(v); *B = lookupB(v)
HHGateF_lookupBoth(g, v) ==
    [g |-> HHGateF_lookupB(HHGateF_lookupA(g, v).g, v).g,
     ret |-> <<HHGateF_lookupA(g, v).ret, HHGateF_lookupB(HHGateF_lookupA(g, v).g, v).ret>>]

\* HHGateF2D::lookupA binds v_ and conc_ from a vector of at least two numbers
HHGateF2D_lookupA(g, v) ==
    IF Len(v) < 2 THEN [g |-> g, ret |-> R(0)]
    ELSE [g |-> [g EXCEPT !.v_ = v[1], !.conc_ = v[2]],
          ret |-> ValueA([g EXCEPT !.v_ = v[1], !.conc_ = v[2]])]

\* HHGateF2D::lookupB evaluates with v_ and conc_ as they are
HHGateF2D_lookupB(g, v) ==
    IF Len(v) < 2 THEN [g |-> g, ret |-> R(0)] ELSE [g |-> g, ret |-> ValueB(g)]

\* A lookupBoth that evaluates B before it binds the inputs
HHGateF2D_lookupBothStale(g, v, c) ==
    [g |-> HHGateF2D_lookupA(g, <<v, c>>).g,
     ret |-> <<HHGateF2D_lookupA(g, <<v, c>>).ret, HHGateF2D_lookupB(g, <<v, c>>).ret>>]

\* HHGateF2D::lookupBoth: *A = lookupA({v, c}); *B = lookupB({v, c})
HHGateF2D_lookupBoth(g, v, c) ==
    [g |-> HHGateF2D_lookupA(g, <<v, c>>).g,
     ret |-> <<HHGateF2D_lookupA(g, <<v, c>>).ret,
               HHGateF2D_lookupB(HHGateF2D_lookupA(g, <<v, c>>).g, <<v, c>>).ret>>]

\* lookupBoth of the gate's class
F_lookupBoth(g, v, c) ==
    IF g.hasC THEN HHGateF2D_lookupBoth(g, v, c) ELSE HHGateF_lookupBoth(g, v)

\* HHGateF::setAlpha, setBeta, setTau, setInf (HHGateF2D inherits them). An
\* expression that does not compile leaves the gate as it was.
HHGateF_setAlpha(g, id, expr) ==
    IF checkOriginal(g, id) /\ Compiles(expr, g.hasC)
    THEN [g EXCEPT !.tauInf_ = FALSE, !.alphaExpr_ = expr] ELSE g

HHGateF_setBeta(g, id, expr) ==
    IF checkOriginal(g, id) /\ Compiles(expr, g.hasC)
    THEN [g EXCEPT !.tauInf_ = FALSE, !.betaExpr_ = expr] ELSE g

HHGateF_setTau(g, id, expr) ==
    IF checkOriginal(g, id) /\ Compiles(expr, g.hasC)
    THEN [g EXCEPT !.tauInf_ = TRUE, !.alphaExpr_ = expr] ELSE g

HHGateF_setInf(g, id, expr) ==
    IF checkOriginal(g, id) /\ Compiles(expr, g.hasC)
    THEN [g EXCEPT !.tauInf_ = TRUE, !.betaExpr_ = expr] ELSE g

-----------------------------------------------------------------------------
(* The formula-gate state machine                                           *)

\* Operations performed on the formula gate in one behaviour
MaxFormulaSteps == 2

FInputs == {<<1, 2>>, R(2)}

FVectors == {<<<<1, 2>>, R(2)>>, <<R(2), <<1, 2>>>>, <<R(2)>>}

FPairs == {<<<<1, 2>>, R(2)>>, <<R(2), <<1, 2>>>>}

FExprs == {"v", "c", "("}

\* Formula gates as configured by their owner before the behaviour starts
InitFormulaGates ==
    {HHGateFInit(OwnerId, hasC, ti, gb) : hasC \in BOOLEAN, ti \in BOOLEAN, gb \in Garbage}
    \cup {HHGateF_setBeta(HHGateF_setAlpha(HHGateFInit(OwnerId, TRUE, ti, gb), OwnerId, "c"),
                          OwnerId, "1-v") : ti \in BOOLEAN, gb \in Garbage}
    \cup {HHGateF_setInf(HHGateF_setTau(HHGateFInit(OwnerId, hasC, ti, gb), OwnerId, "v"),
                         OwnerId, "1-v") :
            hasC \in BOOLEAN, ti \in BOOLEAN, gb \in Garbage}

\* One operation on the formula gate, leaving it as g2
FormulaStep(op, caller, arg, g2, ret) ==
    /\ ~aborted
    /\ steps < MaxFormulaSteps
    /\ gf' = g2
    /\ last' = [op |-> op, caller |-> caller, arg |-> arg, ret |-> ret, pre |-> gf]
    /\ steps' = steps + 1
    /\ UNCHANGED <<hh, chan, heap, ndebug, aborted>>

F_lookupA ==
    /\ ~gf.hasC
    /\ \E v \in FInputs :
          FormulaStep("lookupA", OwnerId, v, HHGateF_lookupA(gf, v).g,
                      HHGateF_lookupA(gf, v).ret)

F_lookupB ==
    /\ ~gf.hasC
    /\ \E v \in FInputs :
          FormulaStep("lookupB", OwnerId, v, HHGateF_lookupB(gf, v).g,
                      HHGateF_lookupB(gf, v).ret)

F_lookupBothF ==
    /\ ~gf.hasC
    /\ \E v \in FInputs :
          FormulaStep("lookupBoth", OwnerId, <<v, v>>, HHGateF_lookupBoth(gf, v).g,
                      HHGateF_lookupBoth(gf, v).ret)

F2D_lookupA ==
    /\ gf.hasC
    /\ \E v \in FVectors :
          FormulaStep("lookupA", OwnerId, v, HHGateF2D_lookupA(gf, v).g,
                      HHGateF2D_lookupA(gf, v).ret)

F2D_lookupB ==
    /\ gf.hasC
    /\ \E v \in FVectors :
          FormulaStep("lookupB", OwnerId, v, HHGateF2D_lookupB(gf, v).g,
                      HHGateF2D_lookupB(gf, v).ret)

F2D_lookupBoth ==
    /\ gf.hasC
    /\ \E v \in FPairs :
          FormulaStep("lookupBoth", OwnerId, v, HHGateF2D_lookupBoth(gf, v[1], v[2]).g,
                      HHGateF2D_lookupBoth(gf, v[1], v[2]).ret)

F_setAlpha ==
    \E id \in Callers, e \in FExprs :
        FormulaStep("alpha", id, e, HHGateF_setAlpha(gf, id, e), <<>>)

F_setBeta ==
    \E id \in Callers, e \in FExprs :
        FormulaStep("beta", id, e, HHGateF_setBeta(gf, id, e), <<>>)

F_setTau ==
    \E id \in Callers, e \in FExprs :
        FormulaStep("tau", id, e, HHGateF_setTau(gf, id, e), <<>>)

F_setInf ==
    \E id \in Callers, e \in FExprs :
        FormulaStep("inf", id, e, HHGateF_setInf(gf, id, e), <<>>)

InitGateF ==
    /\ hh = HHGateInit
    /\ gf \in InitFormulaGates
    /\ chan = IdleChannels
    /\ heap = IdleHeap
    /\ ndebug \in BOOLEAN
    /\ aborted = FALSE
    /\ last = NoOp
    /\ steps = 0

NextGateF ==
    \/ F_lookupA
    \/ F_lookupB
    \/ F_lookupBothF
    \/ F2D_lookupA
    \/ F2D_lookupB
    \/ F2D_lookupBoth
    \/ F_setAlpha
    \/ F_setBeta
    \/ F_setTau
    \/ F_setInf

SpecGateF == InitGateF /\ [][NextGateF]_vars

\* alpha(v, c), beta(v, c), tau(v, c) and inf(v, c) of gate g: its stored
\* expressions at the given inputs
C6_Alpha(g, v, c) == EvalExpr(g.alphaExpr_, v, c)

C6_Beta(g, v, c) == EvalExpr(g.betaExpr_, v, c)

\* C6: lookupBoth(v, c) of a formula gate returns (alpha, alpha + beta) in
\* alpha/beta form and (inf/tau, 1/tau) in tau/inf form, evaluated at the
\* inputs of this call, whatever lookups came before on the same gate.
C6_FormulaLookup ==
    last.op = "lookupBoth" =>
        /\ ~last.pre.tauInf_ =>
              last.ret = <<C6_Alpha(last.pre, last.arg[1], last.arg[2]),
                           Add(C6_Alpha(last.pre, last.arg[1], last.arg[2]),
                               C6_Beta(last.pre, last.arg[1], last.arg[2]))>>
        /\ last.pre.tauInf_ =>
              last.ret = <<Div(C6_Beta(last.pre, last.arg[1], last.arg[2]),
                               C6_Alpha(last.pre, last.arg[1], last.arg[2])),
                           Div(R(1), C6_Alpha(last.pre, last.arg[1], last.arg[2]))>>

\* A two-input lookupBoth on a gate whose bound v and c were left at other
\* values by an earlier lookup, with alpha = c and beta = 1 - v
C6_Witness ==
    /\ last.op = "lookupBoth"
    /\ last.pre.hasC
    /\ ~last.pre.tauInf_
    /\ last.pre.alphaExpr_ = "c" /\ last.pre.betaExpr_ = "1-v"
    /\ last.pre.v_ = R(2) /\ last.pre.conc_ = <<1, 2>>
    /\ last.arg = <<<<1, 2>>, R(2)>>
    /\ last.ret = <<R(2), <<5, 2>>>>

-----------------------------------------------------------------------------
(* HHChannelF2D                                                             *)

\* The three gate slots. The per-slot members of the class are modelled as
\* functions of the slot: power["X"] is Xpower_, state["X"] is X_, inited["X"]
\* is xInited_, index["X"] is Xindex_, dep0["X"] is Xdep0_, dep1["X"] is
\* Xdep1_, gate["X"] is xGate_; "X" \in instant is instant_ & INSTANT_X.
Slots == <<"X", "Y", "Z">>

SlotSet == {"X", "Y", "Z"}

\* The null pointer
Null == 0

\* A channel as HHChannelF2D::HHChannelF2D() leaves it (the members of
\* HHChannelBase and ChanBase at their defaults)
HHChannelF2DInit(id) ==
    [id |-> id,
     power |-> [s \in SlotSet |-> 0],
     state |-> [s \in SlotSet |-> R(0)],
     inited |-> [s \in SlotSet |-> FALSE],
     instant |-> {},
     index |-> [s \in SlotSet |-> ""],
     dep0 |-> [s \in SlotSet |-> -1],
     dep1 |-> [s \in SlotSet |-> -1],
     gate |-> [s \in SlotSet |-> Null],
     conc1_ |-> R(0), conc2_ |-> R(0), Vm_ |-> R(0),
     g_ |-> R(0), Gk_ |-> R(0), Ik_ |-> R(0),
     Gbar_ |-> R(0), Ek_ |-> R(0), modulation_ |-> R(1)]

\* The static table dep of HHChannelF2D::dependency
DepTable ==
    <<[VOLT_INDEX |-> 0, C1_INDEX |-> 1, C2_INDEX |-> 2,
       VOLT_C1_INDEX |-> 0, VOLT_C2_INDEX |-> 0, C1_C2_INDEX |-> 1],
      [VOLT_INDEX |-> -1, C1_INDEX |-> -1, C2_INDEX |-> -1,
       VOLT_C1_INDEX |-> 1, VOLT_C2_INDEX |-> 2, C1_C2_INDEX |-> 2]>>

\* HHChannelF2D::dependency(index, dim) for dim 0 and 1
dependency(index, dim) ==
    IF index \notin DOMAIN DepTable[dim + 1] THEN -1
    ELSE IF DepTable[dim + 1][index] \in {0, 1, 2} THEN DepTable[dim + 1][index]
    ELSE -1

\* HHChannelF2D::setXindex, setYindex, setZindex: the members are written
\* before the assertion on the first dependency is made.
setSlotIndex(c, s, str, nd) ==
    IF str = c.index[s] THEN Ok(c)
    ELSE [g |-> [c EXCEPT !.index[s] = str,
                          !.dep0[s] = dependency(str, 0),
                          !.dep1[s] = dependency(str, 1)],
          ab |-> ~nd /\ ~(dependency(str, 0) >= 0)]

setXindex(c, str, nd) == setSlotIndex(c, "X", str, nd)

setYindex(c, str, nd) == setSlotIndex(c, "Y", str, nd)

setZindex(c, str, nd) == setSlotIndex(c, "Z", str, nd)

\* HHChannelF2D::depValue; in the default branch assert(0) fails, and without
\* the assertion the function returns 0.0
depValue(c, dep) ==
    CASE dep = 0 -> c.Vm_
      [] dep = 1 -> c.conc1_
      [] dep = 2 -> c.conc2_
      [] OTHER -> R(0)

depValueAssertFails(dep) == dep \notin {0, 1, 2}

\* HHChannelF2D::conc1, conc2 and the Vm message of the base class
conc1(c, conc) == [c EXCEPT !.conc1_ = conc]

conc2(c, conc) == [c EXCEPT !.conc2_ = conc]

handleVm(c, Vm) == [c EXCEPT !.Vm_ = Vm]

\* HHChannelBase::integrate: g_new = (g * (2/dt - B) + 2 * A) / (2/dt + B)
integrate(state, dt, A, B) ==
    Div(Add(Mul(state, Sub(Div(R(2), dt), B)), Mul(R(2), A)), Add(Div(R(2), dt), B))

\* takeXpower_(X_, Xpower_): the state to an integer power
RECURSIVE takePower(_, _)
takePower(x, power) == IF power <= 0 THEN R(1) ELSE Mul(x, takePower(x, power - 1))

\* B < EPSILON with EPSILON = 1e-15: every positive value of the model is
\* above 1e-15, so the test is B <= 0 (false for NaN)
BelowEpsilon(B) == Le(B, R(0))

\* The heap of gates: each address holds a gate and whether it is allocated.
\* A channel allocates the gate of a slot at an address of its own.
Addr(id, s) ==
    (IF id = OwnerId THEN 0 ELSE 3) + (CASE s = "X" -> 1 [] s = "Y" -> 2 [] OTHER -> 3)

Addrs == {Addr(id, s) : id \in Callers, s \in SlotSet}

FreeCell == [live |-> FALSE, g |-> HHGateFInit("none", TRUE, FALSE, NaN)]

\* What a use of a destroyed gate may do: crash, or go on with what the freed
\* memory yields
UBChoices == [crash : BOOLEAN, val : Garbage, orig : BOOLEAN]

NoUB == [crash |-> TRUE, val |-> NaN, orig |-> FALSE]

\* The run of one vProcess or vReinit: the channel, the heap, whether the
\* program has stopped (ab), whether reinit has returned early (done) and the
\* gate queries made so far (q: slot, v, c)
Run(c, hp) == [c |-> c, heap |-> hp, ab |-> FALSE, done |-> FALSE, q |-> <<>>]

Stop(m) == [m EXCEPT !.ab = TRUE]

\* ChanBase::setGk(g_ * vGetModulation()), updateIk(), g_ = 0.0
Finish(c) ==
    [c EXCEPT !.Gk_ = Mul(c.g_, c.modulation_),
              !.Ik_ = Mul(Sub(c.Ek_, c.Vm_), Mul(c.g_, c.modulation_)),
              !.g_ = R(0)]

\* X_ = ...; g_ *= takeXpower_(X_, Xpower_) with the new state x
StoreState(m, s, x) ==
    [m EXCEPT !.c.state[s] = x, !.c.g_ = Mul(@, takePower(x, m.c.power[s]))]

\* The query of slot s has returned r = [g, ret]: the gate keeps the inputs
\* bound by the lookup
Queried(m, s, v, conc, r) ==
    [m EXCEPT !.heap[m.c.gate[s]].g = r.g, !.q = Append(@, <<s, v, conc>>)]

\* A process step that gives an instant gate B / A
ProcessApplyInverted(m, s, dt, A, B) ==
    StoreState(m, s, IF s \in m.c.instant THEN Div(B, A)
                     ELSE integrate(m.c.state[s], dt, A, B))

\* if(instant_ & INSTANT_X) X_ = A / B; else X_ = integrate(X_, dt, A, B)
ProcessApply(m, s, dt, A, B) ==
    StoreState(m, s, IF s \in m.c.instant THEN Div(A, B)
                     ELSE integrate(m.c.state[s], dt, A, B))

ProcessQuery(m, s, dt, v, conc, r) ==
    ProcessApply(Queried(m, s, v, conc, r), s, dt, r.ret[1], r.ret[2])

\* The block if(Xpower_ > 0) { ... } of vProcess for slot s
ProcessSlot(m, s, dt, nd, ub) ==
    IF m.ab \/ ~(m.c.power[s] > 0) THEN m
    ELSE IF ~nd /\ (depValueAssertFails(m.c.dep0[s]) \/ depValueAssertFails(m.c.dep1[s]))
    THEN Stop(m)
    ELSE IF m.c.gate[s] = Null THEN Stop(m)
    ELSE IF ~m.heap[m.c.gate[s]].live
    THEN (IF ub.crash THEN Stop(m) ELSE ProcessApply(m, s, dt, ub.val, ub.val))
    ELSE ProcessQuery(m, s, dt, depValue(m.c, m.c.dep0[s]), depValue(m.c, m.c.dep1[s]),
                      HHGateF2D_lookupBoth(m.heap[m.c.gate[s]].g,
                                           depValue(m.c, m.c.dep0[s]),
                                           depValue(m.c, m.c.dep1[s])))

ProcessEnd(m) == IF m.ab THEN m ELSE [m EXCEPT !.c = Finish(m.c)]

\* HHChannelF2D::vProcess: the run
vProcess(c, hp, dt, nd, ub) ==
    ProcessEnd(ProcessSlot(ProcessSlot(ProcessSlot(
        Run([c EXCEPT !.g_ = Add(@, c.Gbar_)], hp), "X", dt, nd, ub), "Y", dt, nd, ub),
        "Z", dt, nd, ub))

\* if(B < EPSILON) return; if(!xInited_) X_ = A / B; g_ *= takeXpower_(X_, Xpower_)
ReinitApply(m, s, A, B) ==
    IF BelowEpsilon(B) THEN [m EXCEPT !.done = TRUE]
    ELSE StoreState(m, s, IF ~m.c.inited[s] THEN Div(A, B) ELSE m.c.state[s])

ReinitQuery(m, s, v, conc, r) ==
    ReinitApply(Queried(m, s, v, conc, r), s, r.ret[1], r.ret[2])

\* The block if(Xpower_ > 0) { ... } of vReinit for slot s
ReinitSlot(m, s, nd, ub) ==
    IF m.ab \/ m.done \/ ~(m.c.power[s] > 0) THEN m
    ELSE IF ~nd /\ (depValueAssertFails(m.c.dep0[s]) \/ depValueAssertFails(m.c.dep1[s]))
    THEN Stop(m)
    ELSE IF m.c.gate[s] = Null THEN Stop(m)
    ELSE IF ~m.heap[m.c.gate[s]].live
    THEN (IF ub.crash THEN Stop(m) ELSE ReinitApply(m, s, ub.val, ub.val))
    ELSE ReinitQuery(m, s, depValue(m.c, m.c.dep0[s]), depValue(m.c, m.c.dep1[s]),
                     HHGateF2D_lookupBoth(m.heap[m.c.gate[s]].g,
                                          depValue(m.c, m.c.dep0[s]),
                                          depValue(m.c, m.c.dep1[s])))

ReinitEnd(m) == IF m.ab \/ m.done THEN m ELSE [m EXCEPT !.c = Finish(m.c)]

\* HHChannelF2D::vReinit: the run
vReinit(c, hp, nd, ub) ==
    ReinitEnd(ReinitSlot(ReinitSlot(ReinitSlot(
        Run([c EXCEPT !.g_ = c.Gbar_], hp), "X", nd, ub), "Y", nd, ub), "Z", nd, ub))

-----------------------------------------------------------------------------
(* The state machine of one HHChannelF2D driven by its compartment          *)

\* Operations performed on the configured channel in one behaviour
MaxChanSteps == 3

VmInputs == {R(0), <<1, 2>>}

Conc1Inputs == {R(0), R(2)}

Conc2Inputs == {R(0), R(3)}

DtInputs == {R(1), R(4)}

IndexInputs == {"VOLT_INDEX", "VOLT_C2_INDEX", "C1_C2_INDEX", "FOO"}

\* A gate of the channel with its two expressions set by the owner
ChanGate(form, ea, eb) ==
    IF form = "tauInf"
    THEN HHGateF_setInf(HHGateF_setTau(HHGateFInit(OwnerId, TRUE, FALSE, NaN),
                                       OwnerId, ea), OwnerId, eb)
    ELSE HHGateF_setBeta(HHGateF_setAlpha(HHGateFInit(OwnerId, TRUE, FALSE, NaN),
                                          OwnerId, ea), OwnerId, eb)

\* Slot s of channel c configured: power p > 0 (which attaches the gate),
\* index string str
WithSlot(c, s, p, str) ==
    [setSlotIndex(c, s, str, TRUE).g EXCEPT !.power[s] = p, !.gate[s] = Addr(c.id, s)]

\* HHChannelBase::setX, setY, setZ: the state is seeded and marked inited
Seeded(c, s, x) == [c EXCEPT !.state[s] = x, !.inited[s] = TRUE]

BaseChannel(gbar, mod) ==
    [HHChannelF2DInit(OwnerId) EXCEPT !.Gbar_ = gbar, !.modulation_ = mod]

HeapOf(gx, gy, gz) ==
    [a \in Addrs |-> CASE a = Addr(OwnerId, "X") -> gx
                       [] a = Addr(OwnerId, "Y") -> gy
                       [] a = Addr(OwnerId, "Z") -> gz
                       [] OTHER -> FreeCell]

Live(g) == [live |-> TRUE, g |-> g]

\* The configured channels the behaviours start from, each with its heap
ChanConfigs ==
    { \* X alone on (Vm, conc1): A = c, B = c + 1 - v
      [c |-> WithSlot(BaseChannel(R(2), R(1)), "X", 1, "VOLT_C1_INDEX"),
       heap |-> HeapOf(Live(ChanGate("alphaBeta", "c", "1-v")), FreeCell, FreeCell)],
      \* X squared on (Vm, conc2) with B = v + c, Y on (conc1, conc2) with B = v + 1
      [c |-> WithSlot(WithSlot(BaseChannel(R(2), R(3)), "X", 2, "VOLT_C2_INDEX"),
                      "Y", 1, "C1_C2_INDEX"),
       heap |-> HeapOf(Live(ChanGate("alphaBeta", "v", "c")),
                       Live(ChanGate("alphaBeta", "1", "v")), FreeCell)],
      \* the same with Y seeded
      [c |-> Seeded(WithSlot(WithSlot(BaseChannel(R(2), R(3)), "X", 2, "VOLT_C2_INDEX"),
                             "Y", 1, "C1_C2_INDEX"), "Y", <<1, 4>>),
       heap |-> HeapOf(Live(ChanGate("alphaBeta", "v", "c")),
                       Live(ChanGate("alphaBeta", "1", "v")), FreeCell)],
      \* X seeded and Y instant, Z seeded without power
      [c |-> [Seeded(Seeded(WithSlot(WithSlot(BaseChannel(R(1), R(1)),
                                              "X", 1, "VOLT_C1_INDEX"),
                                     "Y", 1, "VOLT_C2_INDEX"), "X", <<1, 2>>),
                     "Z", <<1, 3>>) EXCEPT !.instant = {"Y"}],
       heap |-> HeapOf(Live(ChanGate("alphaBeta", "1", "c")),
                       Live(ChanGate("tauInf", "1", "v")), FreeCell)],
      \* X on Vm alone, Z on conc2 alone
      [c |-> WithSlot(WithSlot(BaseChannel(R(2), R(1)), "X", 1, "VOLT_INDEX"),
                      "Z", 1, "C2_INDEX"),
       heap |-> HeapOf(Live(ChanGate("alphaBeta", "v", "1")), FreeCell,
                       Live(ChanGate("tauInf", "1", "v")))] }

\* One operation on the channel: m is the run that results
ChanStep(op, arg, m) ==
    /\ ~aborted
    /\ steps < MaxChanSteps
    /\ chan' = [chan EXCEPT ![OwnerId] = m.c]
    /\ heap' = m.heap
    /\ aborted' = m.ab
    /\ last' = [op |-> op, caller |-> OwnerId, arg |-> arg, ret |-> m.q,
                pre |-> [chan |-> chan, heap |-> heap]]
    /\ steps' = steps + 1
    /\ UNCHANGED <<hh, gf, ndebug>>

\* A handler that leaves c2 and may fail an assertion
Plain(c2, ab) == [Run(c2, heap) EXCEPT !.ab = ab]

C_handleVm ==
    \E v \in VmInputs : ChanStep("Vm", v, Plain(handleVm(chan[OwnerId], v), FALSE))

C_conc1 ==
    \E x \in Conc1Inputs : ChanStep("concen", x, Plain(conc1(chan[OwnerId], x), FALSE))

C_conc2 ==
    \E x \in Conc2Inputs : ChanStep("concen2", x, Plain(conc2(chan[OwnerId], x), FALSE))

C_setXindex ==
    \E str \in IndexInputs :
        ChanStep("Xindex", str, Plain(setXindex(chan[OwnerId], str, ndebug).g,
                                      setXindex(chan[OwnerId], str, ndebug).ab))

C_setYindex ==
    \E str \in IndexInputs :
        ChanStep("Yindex", str, Plain(setYindex(chan[OwnerId], str, ndebug).g,
                                      setYindex(chan[OwnerId], str, ndebug).ab))

C_setZindex ==
    \E str \in IndexInputs :
        ChanStep("Zindex", str, Plain(setZindex(chan[OwnerId], str, ndebug).g,
                                      setZindex(chan[OwnerId], str, ndebug).ab))

C_process ==
    \E dt \in DtInputs :
        ChanStep("process", dt, vProcess(chan[OwnerId], heap, dt, ndebug, NoUB))

C_reinit == ChanStep("reinit", <<>>, vReinit(chan[OwnerId], heap, ndebug, NoUB))

InitChan ==
    /\ hh = HHGateInit
    /\ gf = IdleGateF
    /\ \E k \in ChanConfigs :
          /\ chan = [i \in {OwnerId} |-> k.c]
          /\ heap = k.heap
    /\ ndebug \in BOOLEAN
    /\ aborted = FALSE
    /\ last = NoOp
    /\ steps = 0

NextChan ==
    \/ C_handleVm
    \/ C_conc1
    \/ C_conc2
    \/ C_setXindex
    \/ C_setYindex
    \/ C_setZindex
    \/ C_process
    \/ C_reinit

SpecChan == InitChan /\ [][NextChan]_vars

-----------------------------------------------------------------------------
(* Claims on the channel's process and reinit                               *)

PreChan == last.pre.chan[OwnerId]

PostChan == chan[OwnerId]

\* The product over the slots of state^power (a slot of power 0 gives 1)
GateProduct(c) ==
    Mul(Mul(takePower(c.state["X"], c.power["X"]), takePower(c.state["Y"], c.power["Y"])),
        takePower(c.state["Z"], c.power["Z"]))

\* C3: after every completed process step, whatever reinit and process calls
\* came before, the conductance Gk is gBar * (product over the slots with
\* power > 0 of state^power) * modulation, with the states as the step left them.
C3_Conductance ==
    (last.op = "process" /\ ~aborted) =>
        PostChan.Gk_ = Mul(Mul(PostChan.Gbar_, GateProduct(PostChan)), PostChan.modulation_)

\* The same for the process steps that no early return of reinit precedes:
\* g_ is 0 when the step begins
C3_ConductanceFromZero ==
    (last.op = "process" /\ ~aborted /\ PreChan.g_ = R(0)) =>
        PostChan.Gk_ = Mul(Mul(PostChan.Gbar_, GateProduct(PostChan)), PostChan.modulation_)

\* The <<A, B>> that the gate of slot s returns at the inputs of channel c
SlotAB(c, hp, s) ==
    HHGateF2D_lookupBoth(hp[c.gate[s]].g, depValue(c, c.dep0[s]),
                         depValue(c, c.dep1[s])).ret

AtLeastThreshold(B) == Lt(R(0), B)

\* The state reinit is to give slot s: A/B unless the slot is inited
ReinitRule(c, hp, s) ==
    IF c.inited[s] THEN c.state[s]
    ELSE Div(SlotAB(c, hp, s)[1], SlotAB(c, hp, s)[2])

\* C4: on a completed reinit, every slot with power > 0 whose B at the current
\* inputs is at least the threshold has state A/B if it was not inited and its
\* seeded state if it was; a slot with power 0 keeps its state.
C4_ReinitRule ==
    (last.op = "reinit" /\ ~aborted) =>
        \A s \in SlotSet :
            IF PreChan.power[s] > 0
            THEN AtLeastThreshold(SlotAB(PreChan, last.pre.heap, s)[2]) =>
                     PostChan.state[s] = ReinitRule(PreChan, last.pre.heap, s)
            ELSE PostChan.state[s] = PreChan.state[s]

\* The rule of C4 for the slots that reinit has queried, and power 0 slots
C4_ReinitRuleQueried ==
    (last.op = "reinit" /\ ~aborted) =>
        /\ \A i \in DOMAIN last.ret :
              AtLeastThreshold(SlotAB(PreChan, last.pre.heap, last.ret[i][1])[2]) =>
                  PostChan.state[last.ret[i][1]] =
                      ReinitRule(PreChan, last.pre.heap, last.ret[i][1])
        /\ \A s \in SlotSet :
              ~(PreChan.power[s] > 0) => PostChan.state[s] = PreChan.state[s]

\* C5: on a completed reinit, an active gate whose B is below the threshold
\* keeps its state, and this refusal touches that gate only: every other active
\* gate is initialised by the reinit rule.
C5_RefusalIsLocal ==
    (last.op = "reinit" /\ ~aborted) =>
        \A s \in SlotSet :
            (PreChan.power[s] > 0 /\ BelowEpsilon(SlotAB(PreChan, last.pre.heap, s)[2])) =>
                /\ PostChan.state[s] = PreChan.state[s]
                /\ \A t \in SlotSet \ {s} :
                      (/\ PreChan.power[t] > 0
                       /\ ~BelowEpsilon(SlotAB(PreChan, last.pre.heap, t)[2])) =>
                          PostChan.state[t] = ReinitRule(PreChan, last.pre.heap, t)

\* The refused gate itself keeps its state
C5_RefusedKeepsState ==
    (last.op = "reinit" /\ ~aborted) =>
        \A s \in SlotSet :
            (PreChan.power[s] > 0 /\ BelowEpsilon(SlotAB(PreChan, last.pre.heap, s)[2])) =>
                PostChan.state[s] = PreChan.state[s]

\* The fixed map of the six index strings to the inputs bound to v and to c
IndexMap ==
    [VOLT_INDEX |-> <<"Vm", "none">>, C1_INDEX |-> <<"conc1", "none">>,
     C2_INDEX |-> <<"conc2", "none">>, VOLT_C1_INDEX |-> <<"Vm", "conc1">>,
     VOLT_C2_INDEX |-> <<"Vm", "conc2">>, C1_C2_INDEX |-> <<"conc1", "conc2">>]

InputOf(c, name) ==
    CASE name = "Vm" -> c.Vm_ [] name = "conc1" -> c.conc1_ [] OTHER -> c.conc2_

\* The query qr = <<slot, v, c>> of slot s binds v and c as the index string
\* of the slot in channel c says
BoundByIndex(c, s, qr) ==
    /\ qr[1] = s
    /\ qr[2] = InputOf(c, IndexMap[c.index[s]][1])
    /\ \/ IndexMap[c.index[s]][2] = "none"
       \/ qr[3] = InputOf(c, IndexMap[c.index[s]][2])

\* C7: on every process and reinit each active gate whose slot carries one of
\* the six index strings is queried with v and c bound to the inputs the
\* string names, at the most recently received Vm, concen and concen2 and with
\* the index string as it stands when the step begins.
C7_Binding ==
    (last.op \in {"process", "reinit"}) =>
        \A s \in SlotSet :
            (PreChan.power[s] > 0 /\ PreChan.index[s] \in DOMAIN IndexMap) =>
                \E i \in DOMAIN last.ret : BoundByIndex(PreChan, s, last.ret[i])

\* Every query that process and reinit do make is bound as the map says
C7_QueriesBound ==
    (last.op \in {"process", "reinit"}) =>
        \A i \in DOMAIN last.ret :
            PreChan.index[last.ret[i][1]] \in DOMAIN IndexMap =>
                BoundByIndex(PreChan, last.ret[i][1], last.ret[i])

SlotOfOp == [Xindex |-> "X", Yindex |-> "Y", Zindex |-> "Z"]

\* C8: assigning to Xindex, Yindex or Zindex a string that is not one of the
\* six recognised ones leaves the stored index string and the two dependency
\* bindings of the slot as they were.
C8_UnknownIndexRejected ==
    (last.op \in DOMAIN SlotOfOp /\ last.arg \notin DOMAIN IndexMap) =>
        /\ PostChan.index[SlotOfOp[last.op]] = PreChan.index[SlotOfOp[last.op]]
        /\ PostChan.dep0[SlotOfOp[last.op]] = PreChan.dep0[SlotOfOp[last.op]]
        /\ PostChan.dep1[SlotOfOp[last.op]] = PreChan.dep1[SlotOfOp[last.op]]

\* A recognised string is stored with the dependencies of the map
C8_KnownIndexStored ==
    (last.op \in DOMAIN SlotOfOp /\ last.arg \in DOMAIN IndexMap) =>
        /\ PostChan.index[SlotOfOp[last.op]] = last.arg
        /\ PostChan.dep0[SlotOfOp[last.op]] \in {0, 1, 2}

-----------------------------------------------------------------------------
(* Gate management of HHChannelF2D and copies of a channel                   *)

\* HHGateBase::isOriginalChannel
isOriginalChannel(g, id) == id = g.originalChanId_

\* gate->isOriginalChannel(chanId) through the pointer a: the read of a
\* destroyed gate yields whatever the freed memory holds
PointeeIsOriginal(hp, a, id, ub) ==
    IF hp[a].live THEN isOriginalChannel(hp[a].g, id) ELSE ub.orig

\* HHChannelF2D::checkOriginal: the first gate present decides
HHChannelF2D_checkOriginal(c, hp, ub) ==
    IF c.gate["X"] # Null THEN PointeeIsOriginal(hp, c.gate["X"], c.id, ub)
    ELSE IF c.gate["Y"] # Null THEN PointeeIsOriginal(hp, c.gate["Y"], c.id, ub)
    ELSE IF c.gate["Z"] # Null THEN PointeeIsOriginal(hp, c.gate["Z"], c.id, ub)
    ELSE TRUE

\* The gates new HHGateF2D(chanId, gateId) may yield: the constructor leaves
\* tauInf_, v_ and conc_ uninitialised
FreshGates(id) == {HHGateFInit(id, TRUE, ti, gb) : ti \in BOOLEAN, gb \in Garbage}

\* HHChannelF2D::innerCreateGate
innerCreateGate(m, s, fresh) ==
    IF m.c.gate[s] # Null THEN m
    ELSE [m EXCEPT !.c.gate[s] = Addr(m.c.id, s),
                   !.heap[Addr(m.c.id, s)] = [live |-> TRUE, g |-> fresh]]

\* HHChannelF2D::vCreateGate
vCreateGate(m, gateType, fresh, ub) ==
    IF ~HHChannelF2D_checkOriginal(m.c, m.heap, ub) THEN m
    ELSE IF gateType \in SlotSet THEN innerCreateGate(m, gateType, fresh)
    ELSE m

\* HHChannelF2D::innerDestroyGate: delete of a gate already destroyed either
\* stops the program or goes unnoticed
innerDestroyGate(m, s, ub) ==
    IF m.c.gate[s] = Null THEN m
    ELSE IF ~m.heap[m.c.gate[s]].live
    THEN (IF ub.crash THEN Stop(m) ELSE [m EXCEPT !.c.gate[s] = Null])
    ELSE [m EXCEPT !.c.gate[s] = Null, !.heap[m.c.gate[s]].live = FALSE]

\* HHChannelF2D::destroyGate
destroyGate(m, gateType, ub) ==
    IF ~HHChannelF2D_checkOriginal(m.c, m.heap, ub) THEN m
    ELSE IF gateType \in SlotSet THEN innerDestroyGate(m, gateType, ub)
    ELSE m

WithPower(m, s, power) == IF m.ab THEN m ELSE [m EXCEPT !.c.power[s] = power]

\* The Xpower, Ypower, Zpower setters of HHChannelBase: a power > 0 on an
\* empty slot creates the gate, the power 0 destroys an attached gate, a
\* negative power is rejected
setPower(m, s, power, fresh, ub) ==
    IF power < 0 THEN m
    ELSE IF power > 0 /\ m.c.gate[s] = Null
    THEN WithPower(vCreateGate(m, s, fresh, ub), s, power)
    ELSE IF power = 0 /\ m.c.gate[s] # Null
    THEN WithPower(destroyGate(m, s, ub), s, power)
    ELSE WithPower(m, s, power)

\* The copy of a channel: every member is copied, the gate pointers included
copyChannel(c, id) == [c EXCEPT !.id = id]

-----------------------------------------------------------------------------
(* The state machine of a channel, its copy and their gates                  *)

\* Operations performed on the channel and its copy in one behaviour
MaxLifeSteps == 3

GateTypes == {"X", "Y", "Z", "W"}

PowerInputs == {0, 1}

EmptyHeap == [a \in Addrs |-> FreeCell]

\* A fresh gate as the scripts of the initial channels obtain it
Gate0(id) == HHGateFInit(id, TRUE, FALSE, NaN)

\* The outcomes of undefined behaviour to draw for an operation on channel c:
\* there is a choice only if c holds a pointer to a destroyed gate
UBFor(c, hp) ==
    IF \E s \in SlotSet : c.gate[s] # Null /\ ~hp[c.gate[s]].live THEN UBChoices
    ELSE {NoUB}

\* The fresh gates to draw for a creation in slot s of channel c: there is a
\* choice only if the slot is empty
FreshFor(c, s) ==
    IF s \in SlotSet /\ c.gate[s] = Null THEN FreshGates(c.id) ELSE {Gate0(c.id)}

WithIndex(m, s, str) == [m EXCEPT !.c = setSlotIndex(m.c, s, str, TRUE).g]

\* The channels the behaviours start from: the empty channel, and channels
\* whose owner has set powers and index strings
LifeConfigs ==
    { Run(HHChannelF2DInit(OwnerId), EmptyHeap),
      WithIndex(setPower(Run(HHChannelF2DInit(OwnerId), EmptyHeap),
                         "X", 1, Gate0(OwnerId), NoUB), "X", "VOLT_C1_INDEX"),
      WithIndex(WithIndex(
          setPower(setPower(Run(HHChannelF2DInit(OwnerId), EmptyHeap),
                            "X", 1, Gate0(OwnerId), NoUB),
                   "Y", 1, Gate0(OwnerId), NoUB),
          "X", "VOLT_C1_INDEX"), "Y", "C1_C2_INDEX") }

\* One operation on channel id: m is the run that results
LifeStep(op, id, arg, m) ==
    /\ ~aborted
    /\ steps < MaxLifeSteps
    /\ chan' = [chan EXCEPT ![id] = m.c]
    /\ heap' = m.heap
    /\ aborted' = m.ab
    /\ last' = [op |-> op, caller |-> id, arg |-> arg, ret |-> m.q,
                pre |-> [chan |-> chan, heap |-> heap]]
    /\ steps' = steps + 1
    /\ UNCHANGED <<hh, gf, ndebug>>

L_copy ==
    /\ ~aborted
    /\ steps < MaxLifeSteps
    /\ CopyId \notin DOMAIN chan
    /\ chan' = [i \in Callers |-> IF i = CopyId THEN copyChannel(chan[OwnerId], CopyId)
                                  ELSE chan[i]]
    /\ last' = [op |-> "copy", caller |-> OwnerId, arg |-> CopyId, ret |-> <<>>,
                pre |-> [chan |-> chan, heap |-> heap]]
    /\ steps' = steps + 1
    /\ UNCHANGED <<hh, gf, heap, ndebug, aborted>>

L_createGate ==
    \E id \in DOMAIN chan, gateType \in GateTypes :
        \E ub \in UBFor(chan[id], heap), fresh \in FreshFor(chan[id], gateType) :
            LifeStep("createGate", id, gateType,
                     vCreateGate(Run(chan[id], heap), gateType, fresh, ub))

L_destroyGate ==
    \E id \in DOMAIN chan, gateType \in GateTypes :
        \E ub \in UBFor(chan[id], heap) :
            LifeStep("destroyGate", id, gateType,
                     destroyGate(Run(chan[id], heap), gateType, ub))

L_setPower ==
    \E id \in DOMAIN chan, s \in SlotSet, power \in PowerInputs :
        \E ub \in UBFor(chan[id], heap), fresh \in FreshFor(chan[id], s) :
            LifeStep("power", id, <<s, power>>,
                     setPower(Run(chan[id], heap), s, power, fresh, ub))

L_process ==
    \E id \in DOMAIN chan, dt \in DtInputs :
        \E ub \in UBFor(chan[id], heap) :
            LifeStep("process", id, dt, vProcess(chan[id], heap, dt, ndebug, ub))

L_reinit ==
    \E id \in DOMAIN chan :
        \E ub \in UBFor(chan[id], heap) :
            LifeStep("reinit", id, <<>>, vReinit(chan[id], heap, ndebug, ub))

InitLife ==
    /\ hh = HHGateInit
    /\ gf = IdleGateF
    /\ \E k \in LifeConfigs :
          /\ chan = [i \in {OwnerId} |-> k.c]
          /\ heap = k.heap
    /\ ndebug \in BOOLEAN
    /\ aborted = FALSE
    /\ last = NoOp
    /\ steps = 0

NextLife ==
    \/ L_copy
    \/ L_createGate
    \/ L_destroyGate
    \/ L_setPower
    \/ L_process
    \/ L_reinit

SpecLife == InitLife /\ [][NextLife]_vars

-----------------------------------------------------------------------------
(* Claims on gate management                                                 *)

\* C9: after any power settings and createGate/destroyGate calls, in every
\* channel the gate of each slot X, Y, Z is present exactly when the power of
\* the slot is > 0.
C9_GateIffPower ==
    \A id \in DOMAIN chan : \A s \in SlotSet :
        (chan[id].gate[s] # Null) <=> (chan[id].power[s] > 0)

\* The power setter alone, on a channel that has no copy, leaves the gate of
\* the slot present exactly when the power set is > 0
C9_PowerSetterAttaches ==
    (last.op = "power" /\ CopyId \notin DOMAIN last.pre.chan) =>
        ((chan[last.caller].gate[last.arg[1]] # Null) <=> (last.arg[2] > 0))

OwnerAddrs == {Addr(OwnerId, s) : s \in SlotSet}

\* The channel c holds a gate of the original channel
HoldsOriginalGate(c) == \E s \in SlotSet : c.gate[s] \in OwnerAddrs

\* The call has changed neither the slots of the copy nor the gates of the
\* original channel
Refused ==
    /\ chan[CopyId].gate = last.pre.chan[CopyId].gate
    /\ chan[OwnerId].gate = last.pre.chan[OwnerId].gate
    /\ \A a \in OwnerAddrs : heap[a] = last.pre.heap[a]

\* C10: createGate and destroyGate invoked on a copy that holds gates of the
\* original channel change neither the three slots of the copy nor the gates
\* of the original, whichever gate type is named.
C10_CopyRefused ==
    (/\ last.op \in {"createGate", "destroyGate"}
     /\ last.caller = CopyId
     /\ HoldsOriginalGate(last.pre.chan[CopyId])) => Refused

\* The first gate present in channel c
FirstGate(c) ==
    IF c.gate["X"] # Null THEN c.gate["X"]
    ELSE IF c.gate["Y"] # Null THEN c.gate["Y"] ELSE c.gate["Z"]

\* The calls are refused when the first gate the copy holds is a gate of
\* the original that has not been destroyed
C10_CopyRefusedLiveGate ==
    (/\ last.op \in {"createGate", "destroyGate"}
     /\ last.caller = CopyId
     /\ FirstGate(last.pre.chan[CopyId]) \in OwnerAddrs
     /\ last.pre.heap[FirstGate(last.pre.chan[CopyId])].live) => Refused

-----------------------------------------------------------------------------
(* Claims on the configuration of an HHGate                                  *)

\* The configuration operations of an HHGate
ConfigOps == MutatingOps \ {"useInterpolation"}

ByOwner == last.op \in ConfigOps /\ last.caller = last.pre.originalChanId_

\* C11: after any sequence of configuration operations made through the
\* original owner, tables A and B have the same number of entries, and after
\* an assignment of divs that number is the assigned divs + 1.
C11_TableSizes ==
    (ByOwner /\ ~aborted) =>
        /\ Len(hh.A_) = Len(hh.B_)
        /\ (ByOwner /\ last.op = "divs") => Len(hh.A_) = last.arg + 1

\* The operations other than tableA, tableB and setupGate keep two tables of
\* equal length equal in length
C11_SizesKeptByOthers ==
    (/\ ByOwner
     /\ ~aborted
     /\ last.op \notin {"tableA", "tableB", "setupGate"}
     /\ Len(last.pre.A_) = Len(last.pre.B_)) => Len(hh.A_) = Len(hh.B_)

\* invDx as derived from the current table length and range
DerivedInvDx(g) == Div(R(Len(g.A_) - 1), Sub(g.xmax_, g.xmin_))

\* C12: after a configuration operation made through the original owner
\* (tableA, tableB, min, max, divs, setupAlpha, setupTau, setupGate, the
\* coefficient vectors, the expression assignments), invDx equals
\* divs / (max - min) with divs >= 1 the current table length minus one.
C12_InvDx ==
    (ByOwner /\ ~aborted /\ last.op # "tabFillExpr" /\ Len(hh.A_) >= 2) =>
        hh.invDx_ = DerivedInvDx(hh)

\* setupAlpha and setupTau that fill the tables, and tableA, leave invDx derived
C12_InvDxAfterSetup ==
    (/\ ByOwner
     /\ ~aborted
     /\ Len(hh.A_) >= 2
     /\ last.op \in {"setupAlpha", "setupTau", "tableA"}) => hh.invDx_ = DerivedInvDx(hh)

\* The operation asks for min >= max or for divs < 1
AsksBadRange ==
    \/ last.op = "min" /\ ~Lt(last.arg, last.pre.xmax_)
    \/ last.op = "max" /\ ~Lt(last.pre.xmin_, last.arg)
    \/ last.op = "divs" /\ last.arg < 1
    \/ /\ last.op \in {"setupAlpha", "setupTau"}
       /\ (Lt(last.arg[11], R(1)) \/ ~Lt(last.arg[12], last.arg[13]))

\* What a rejected configuration operation is to leave alone
RangeFrame(g) == <<g.A_, g.B_, g.xmin_, g.xmax_, g.invDx_, g.alpha_, g.beta_, g.form_>>

\* C13: a gate with min < max keeps min < max through every configuration
\* operation of its owner, and an operation asking for min >= max or divs < 1
\* leaves the tables, min, max, invDx, the alpha/beta coefficients and form
\* as they were.
C13_RangeKept ==
    (ByOwner /\ Lt(last.pre.xmin_, last.pre.xmax_)) =>
        /\ Lt(hh.xmin_, hh.xmax_)
        /\ AsksBadRange => (~aborted /\ RangeFrame(hh) = RangeFrame(last.pre))

\* setupAlpha and setupTau with divs < 1 leave the tables, min, max and invDx
C13_SetupRejectsNoDivs ==
    (/\ ByOwner
     /\ last.op \in {"setupAlpha", "setupTau"}
     /\ Lt(last.arg[11], R(1))) =>
        /\ ~aborted
        /\ <<hh.A_, hh.B_, hh.xmin_, hh.xmax_, hh.invDx_>> =
               <<last.pre.A_, last.pre.B_, last.pre.xmin_, last.pre.xmax_,
                 last.pre.invDx_>>

-----------------------------------------------------------------------------
(* Claims on the table fills of an HHGate                                    *)

\* The last operation was a setupAlpha or setupTau that filled the tables
SetupFilled ==
    /\ last.op \in {"setupAlpha", "setupTau"}
    /\ last.caller = last.pre.originalChanId_
    /\ ~Lt(last.arg[11], R(1))
    /\ ~aborted

\* The last operation was a tabFillExpr that filled the tables
ExprFilled ==
    /\ last.op = "tabFillExpr"
    /\ last.pre.form_ # 0
    /\ Compiles(last.pre.alphaExpr_, FALSE)
    /\ Compiles(last.pre.betaExpr_, FALSE)
    /\ ~aborted

AllRegular(tab) == \A i \in DOMAIN tab : ~Singular(tab[i])

\* C14: after a table fill (setupAlpha, setupTau, or tabFillExpr with its
\* sweep) every entry of A and of B is finite and of magnitude >= 1e-6.
C14_TablesRegular ==
    (SetupFilled \/ ExprFilled) => (AllRegular(hh.A_) /\ AllRegular(hh.B_))

\* The sample point v_i = min + i * (max - min) / divs of gate g
SamplePoint(g, i) ==
    Add(g.xmin_, Mul(R(i), Div(Sub(g.xmax_, g.xmin_), R(Len(g.A_) - 1))))

\* The (A, B) convention on the two expressions of g at v
ExprA(g, v) ==
    IF g.form_ = 1 THEN EvalExpr(g.alphaExpr_, v, NaN)
    ELSE Div(EvalExpr(g.betaExpr_, v, NaN), EvalExpr(g.alphaExpr_, v, NaN))

ExprB(g, v) ==
    IF g.form_ = 1 THEN Add(EvalExpr(g.alphaExpr_, v, NaN), EvalExpr(g.betaExpr_, v, NaN))
    ELSE Div(R(1), EvalExpr(g.alphaExpr_, v, NaN))

\* Table tab holds at every sample point the value, if that value is finite
\* and of magnitude >= 1e-6
HoldsRegular(tab, g, i, x) ==
    ~Singular(x) => (i + 1 \in DOMAIN tab /\ tab[i + 1] = x)

\* C15: tabFillExpr on a gate with divs >= 1 whose two expressions compile
\* leaves, for every i in 0..divs, A[i] = alpha(v_i) and B[i] = alpha(v_i) +
\* beta(v_i) in form 1, A[i] = inf(v_i)/tau(v_i) and B[i] = 1/tau(v_i) in form
\* 2, wherever these values are finite and of magnitude >= 1e-6; on a gate
\* with form 0 it changes nothing.
C15_ExprFill ==
    (last.op = "tabFillExpr") =>
        /\ last.pre.form_ = 0 => (hh = last.pre /\ ~aborted)
        /\ (/\ last.pre.form_ # 0
            /\ Len(last.pre.A_) >= 2
            /\ Compiles(last.pre.alphaExpr_, FALSE)
            /\ Compiles(last.pre.betaExpr_, FALSE)) =>
               /\ ~aborted
               /\ \A i \in 0..(Len(last.pre.A_) - 1) :
                     /\ HoldsRegular(hh.A_, last.pre, i,
                                     ExprA(last.pre, SamplePoint(last.pre, i)))
                     /\ HoldsRegular(hh.B_, last.pre, i,
                                     ExprB(last.pre, SamplePoint(last.pre, i)))

\* The same on the gates whose tables A and B have the same length, in a run
\* that was not stopped by an assertion of the sweep
C15_ExprFillEqualTables ==
    (/\ last.op = "tabFillExpr"
     /\ ~aborted
     /\ last.pre.form_ # 0
     /\ Len(last.pre.A_) >= 2
     /\ Len(last.pre.A_) = Len(last.pre.B_)
     /\ Compiles(last.pre.alphaExpr_, FALSE)
     /\ Compiles(last.pre.betaExpr_, FALSE)) =>
        \A i \in 0..(Len(last.pre.A_) - 1) :
            /\ HoldsRegular(hh.A_, last.pre, i, ExprA(last.pre, SamplePoint(last.pre, i)))
            /\ HoldsRegular(hh.B_, last.pre, i, ExprB(last.pre, SamplePoint(last.pre, i)))

(* Claims on setupAlpha *)

\* The curve y(x) = (P0 + P1 x) / (P2 + exp((x + P3) / P4)) of the five
\* parameters at offset o as the tables are to sample it: zero when
\* |P4| < 1e-6, the average at x +/- dx/10 where the denominator is below
\* 1e-6, the curve itself elsewhere
CurveSample(parms, o, x, dx) ==
    IF CurveFlat(parms, o) THEN R(0)
    ELSE IF CurveSing(parms, o, x) THEN CurveHealed(parms, o, x, dx)
    ELSE CurveAt(parms, o, x)

SetupDx(parms) == Div(Sub(parms[13], parms[12]), parms[11])

SetupX(parms, i) == Add(parms[12], Mul(R(i), SetupDx(parms)))

SetupAlphaDone ==
    /\ last.op = "setupAlpha"
    /\ last.caller = last.pre.originalChanId_
    /\ ~Lt(last.arg[11], R(1))
    /\ Lt(last.arg[12], last.arg[13])
    /\ ~aborted

\* C16: after setupAlpha with 13 parameters, divs >= 1 and min < max, A[i] is
\* the alpha curve at x_i = min + i * dx and B[i] is A[i] plus the beta curve
\* at x_i, for every i in 0..divs, healed samples included.
C16_SetupAlphaTables ==
    SetupAlphaDone =>
        /\ Len(hh.A_) = ToUInt(last.arg[11]) + 1
        /\ Len(hh.B_) = ToUInt(last.arg[11]) + 1
        /\ \A i \in 0..ToUInt(last.arg[11]) :
              /\ hh.A_[i + 1] = CurveSample(last.arg, 0, SetupX(last.arg, i), SetupDx(last.arg))
              /\ hh.B_[i + 1] = Add(hh.A_[i + 1],
                                    CurveSample(last.arg, 5, SetupX(last.arg, i),
                                                SetupDx(last.arg)))

\* The same where the beta sample is not a healed singular point
C16_SetupAlphaUnhealedBeta ==
    SetupAlphaDone =>
        /\ Len(hh.A_) = ToUInt(last.arg[11]) + 1
        /\ Len(hh.B_) = ToUInt(last.arg[11]) + 1
        /\ \A i \in 0..ToUInt(last.arg[11]) :
              /\ hh.A_[i + 1] = CurveSample(last.arg, 0, SetupX(last.arg, i), SetupDx(last.arg))
              /\ (CurveFlat(last.arg, 5) \/ ~CurveSing(last.arg, 5, SetupX(last.arg, i))) =>
                    hh.B_[i + 1] = Add(hh.A_[i + 1],
                                       CurveSample(last.arg, 5, SetupX(last.arg, i),
                                                   SetupDx(last.arg)))

(* Claims on the change of the grid of an HHGate *)

\* The linear interpolation of table old, laid on the grid of omin..omax, at
\* v; the end entries outside that range
Interpolated(old, omin, omax, v) ==
    IF Le(v, omin) THEN old[1]
    ELSE IF Le(omax, v) THEN old[Len(old)]
    ELSE LET pos == Div(Mul(Sub(v, omin), R(Len(old) - 1)), Sub(omax, omin))
             k == ToUInt(pos)
             frac == Sub(pos, R(k))
         IN  Add(Mul(old[k + 1], Sub(R(1), frac)), Mul(old[k + 2], frac))

\* Table old of the grid omin..omax re-sampled into divs intervals of nmin..nmax
Resampled(old, omin, omax, divs, nmin, nmax) ==
    [i \in 1..(divs + 1) |->
        Interpolated(old, omin, omax,
                     Add(nmin, Mul(R(i - 1), Div(Sub(nmax, nmin), R(divs)))))]

NewMin == IF last.op = "min" THEN last.arg ELSE last.pre.xmin_

NewMax == IF last.op = "max" THEN last.arg ELSE last.pre.xmax_

NewDivs == IF last.op = "divs" THEN last.arg ELSE Len(last.pre.A_) - 1

GridChanged ==
    /\ last.op \in {"min", "max", "divs"}
    /\ last.caller = last.pre.originalChanId_
    /\ Lt(last.pre.xmin_, last.pre.xmax_)
    /\ Lt(NewMin, NewMax)
    /\ NewDivs >= 1

DirectTables(g) ==
    /\ g.isDirectTable_
    /\ g.form_ = 0
    /\ Len(g.A_) >= 2
    /\ Len(g.A_) = Len(g.B_)

\* C17: on a gate holding directly assigned tables, a change of min, max or
\* divs by the owner leaves in A and B the old tables re-sampled into the new
\* grid by linear interpolation on the old grid, with the old end entries
\* outside the old range.
C17_Resampled ==
    (GridChanged /\ DirectTables(last.pre)) =>
        /\ ~aborted
        /\ hh.A_ = Resampled(last.pre.A_, last.pre.xmin_, last.pre.xmax_,
                             NewDivs, NewMin, NewMax)
        /\ hh.B_ = Resampled(last.pre.B_, last.pre.xmin_, last.pre.xmax_,
                             NewDivs, NewMin, NewMax)

\* What the change of the grid does keep: the number of entries asked for,
\* when that is at least 4
C17_ResizedOnly ==
    (GridChanged /\ DirectTables(last.pre) /\ ~aborted /\ NewDivs >= 3) =>
        /\ Len(hh.A_) = NewDivs + 1
        /\ Len(hh.B_) = NewDivs + 1

\* The gate before the last operation, laid on the grid that the operation
\* asks for
OnNewGrid ==
    [last.pre EXCEPT !.xmin_ = NewMin, !.xmax_ = NewMax,
                     !.A_ = Resize(@, NewDivs + 1), !.B_ = Resize(@, NewDivs + 1)]

FormulaForm(g) ==
    /\ g.form_ # 0
    /\ Compiles(g.alphaExpr_, FALSE)
    /\ Compiles(g.betaExpr_, FALSE)

\* C18: on a gate in form 1 or 2 whose expressions compile, a change of divs,
\* min or max by the owner re-runs the fill: the tables have divs + 1 entries
\* and hold the (A, B) convention of the expressions on the new grid wherever
\* that value is finite and of magnitude >= 1e-6 (stated on the gates whose
\* two tables had the same length).
C18_RefilledFromExprs ==
    (GridChanged /\ FormulaForm(last.pre) /\ Len(last.pre.A_) = Len(last.pre.B_)) =>
        /\ ~aborted
        /\ Len(hh.A_) = NewDivs + 1
        /\ Len(hh.B_) = NewDivs + 1
        /\ \A i \in 0..NewDivs :
              /\ HoldsRegular(hh.A_, OnNewGrid, i, ExprA(OnNewGrid, SamplePoint(OnNewGrid, i)))
              /\ HoldsRegular(hh.B_, OnNewGrid, i, ExprB(OnNewGrid, SamplePoint(OnNewGrid, i)))

\* What a change of min or max does on a gate in a formula form that holds no
\* coefficient vectors and no direct table: the entries stay as they were
C18_EntriesKept ==
    (/\ GridChanged
     /\ last.op \in {"min", "max"}
     /\ FormulaForm(last.pre)
     /\ ~last.pre.isDirectTable_
     /\ Len(last.pre.alpha_) = 0) =>
        (hh.A_ = last.pre.A_ /\ hh.B_ = last.pre.B_ /\ hh.form_ = last.pre.form_)

(* Claims on the field alphaParms *)

\* C19: after setupAlpha (or the assignment of alphaParms) with 13 scalars,
\* divs >= 1 and min < max, reading alphaParms returns the same 13 scalars,
\* the same divs in particular.
C19_AlphaParmsRoundTrip ==
    SetupAlphaDone => getAlphaParms(hh) = last.arg

\* What the read does return: the 10 coefficients, min and max as given, and
\* divs + 1 in the place of divs
C19_AlphaParmsButDivs ==
    SetupAlphaDone =>
        /\ Len(getAlphaParms(hh)) = 13
        /\ \A k \in (1..13) \ {11} : getAlphaParms(hh)[k] = last.arg[k]
        /\ getAlphaParms(hh)[11] = Add(last.arg[11], R(1))

(* Claims on the assignment of expressions *)

ExprOps == {"alphaExpr", "betaExpr", "tauExpr", "infExpr"}

\* C20: the assignment of an expression that does not compile to alphaExpr,
\* betaExpr, tauExpr or infExpr of an HHGate is rejected: the gate keeps the
\* expressions and the form flag that it held.
C20_MalformedRejected ==
    (/\ last.op \in ExprOps
     /\ last.caller = last.pre.originalChanId_
     /\ ~Compiles(last.arg, FALSE)) =>
        /\ hh.alphaExpr_ = last.pre.alphaExpr_
        /\ hh.betaExpr_ = last.pre.betaExpr_
        /\ hh.form_ = last.pre.form_

\* The same assignment to alpha, beta, tau or inf of an HHGateF or HHGateF2D
\* leaves the gate as it was
C20_MalformedRejectedFormulaGate ==
    (/\ last.op \in {"alpha", "beta", "tau", "inf"}
     /\ ~Compiles(last.arg, last.pre.hasC)) =>
        gf = last.pre

(* Claims on the rejected assignment of table B *)

TableBMismatch ==
    /\ last.op = "tableB"
    /\ last.caller = last.pre.originalChanId_
    /\ Len(last.arg) # Len(last.pre.A_)

\* C21: the assignment to tableB of a vector whose length differs from that
\* of table A leaves the gate as it was before the call: A, B, form, min, max,
\* invDx, and whether min, max and divs treat the gate as a direct-table gate.
C21_MismatchKeepsGate ==
    TableBMismatch => (hh = last.pre /\ ~aborted)

\* What the rejected assignment does keep: everything but the direct-table flag
C21_MismatchKeepsTables ==
    TableBMismatch =>
        (/\ [hh EXCEPT !.isDirectTable_ = last.pre.isDirectTable_] = last.pre
         /\ hh.isDirectTable_
         /\ ~aborted)

(* Claims on the range of the gate states *)

InUnit(x) == Le(R(0), x) /\ Le(x, R(1))

ActiveInUnit(c) == \A s \in SlotSet : c.power[s] > 0 => InUnit(c.state[s])

\* The slots whose gates the last process or reinit has queried
QueriedSlots == {last.ret[i][1] : i \in DOMAIN last.ret}

\* 0 <= A <= B and B > 0 for the rates <<A, B>>
RatesInOrder(ab) == Le(R(0), ab[1]) /\ Le(ab[1], ab[2]) /\ Lt(R(0), ab[2])

StepWithRatesInOrder ==
    /\ last.op \in {"process", "reinit"}
    /\ ~aborted
    /\ ActiveInUnit(PreChan)
    /\ \A s \in QueriedSlots : RatesInOrder(SlotAB(PreChan, last.pre.heap, s))

\* dt * B <= 2 for every gate that the last process step has integrated
StepWithinStability ==
    last.op = "process" =>
        \A s \in QueriedSlots \ PreChan.instant :
            Le(Mul(last.arg, SlotAB(PreChan, last.pre.heap, s)[2]), R(2))

DocumentedC == [C1_INDEX |-> "conc1", C2_INDEX |-> "conc2"]

\* C23: on every process and reinit, a gate whose slot carries C1_INDEX
\* (C2_INDEX) is queried with c bound to the concentration received on concen
\* (concen2), and a gate whose slot carries VOLT_INDEX with v bound to the
\* voltage received on Vm.
C23_SingleInputBinding ==
    (last.op \in {"process", "reinit"}) =>
        \A i \in DOMAIN last.ret :
            /\ PreChan.index[last.ret[i][1]] \in DOMAIN DocumentedC =>
                  last.ret[i][3] = InputOf(PreChan, DocumentedC[PreChan.index[last.ret[i][1]]])
            /\ PreChan.index[last.ret[i][1]] = "VOLT_INDEX" =>
                  last.ret[i][2] = PreChan.Vm_

\* What the queries do bind: under VOLT_INDEX the voltage to v; under C1_INDEX
\* and C2_INDEX the concentration to v and 0 to c
C23_ConcentrationBoundToV ==
    (last.op \in {"process", "reinit"}) =>
        \A i \in DOMAIN last.ret :
            /\ PreChan.index[last.ret[i][1]] \in DOMAIN DocumentedC =>
                  /\ last.ret[i][2] = InputOf(PreChan, DocumentedC[PreChan.index[last.ret[i][1]]])
                  /\ last.ret[i][3] = R(0)
            /\ PreChan.index[last.ret[i][1]] = "VOLT_INDEX" =>
                  last.ret[i][2] = PreChan.Vm_

(* Claims on the lookup field B of HHGateF2D *)

\* The B value of gate g at the inputs (v, c)
BValueAt(g, v, c) == ValueB([g EXCEPT !.v_ = v, !.conc_ = c])

TwoInputLookupB ==
    /\ last.op = "lookupB"
    /\ last.pre.hasC
    /\ Len(last.arg) >= 2
    /\ Compiles(last.pre.alphaExpr_, TRUE)
    /\ Compiles(last.pre.betaExpr_, TRUE)

\* C24: lookupB([v, c]) of an HHGateF2D returns the B value of the gate's
\* expressions at exactly (v, c), whatever lookups the gate received before.
C24_LookupBAtArgument ==
    TwoInputLookupB => last.ret = BValueAt(last.pre, last.arg[1], last.arg[2])

\* What lookupB does return: the B value at the inputs of the last lookupA or
\* lookupBoth on the same gate
C24_LookupBAtBoundInputs ==
    TwoInputLookupB => last.ret = BValueAt(last.pre, last.pre.v_, last.pre.conc_)

(* Claims on the frame of the range setters *)

RangeSet ==
    /\ last.op \in {"min", "max"}
    /\ last.caller = last.pre.originalChanId_
    /\ ~aborted

\* C25: a change of min or max by the owner keeps the number of table
\* entries, the form, the expression strings and useInterpolation, whatever
\* the gate was configured with before.
C25_RangeFrame ==
    RangeSet =>
        /\ Len(hh.A_) = Len(last.pre.A_)
        /\ Len(hh.B_) = Len(last.pre.B_)
        /\ hh.form_ = last.pre.form_
        /\ hh.alphaExpr_ = last.pre.alphaExpr_
        /\ hh.betaExpr_ = last.pre.betaExpr_
        /\ hh.lookupByInterpolation_ = last.pre.lookupByInterpolation_

\* The same on the gates that hold no coefficient vectors and whose two
\* tables have the same length
C25_RangeFrameNoCoefficients ==
    (/\ RangeSet
     /\ Len(last.pre.alpha_) = 0 \/ Len(last.pre.beta_) = 0
     /\ Len(last.pre.A_) = Len(last.pre.B_)) =>
        /\ Len(hh.A_) = Len(last.pre.A_)
        /\ Len(hh.B_) = Len(last.pre.B_)
        /\ hh.form_ = last.pre.form_
        /\ hh.alphaExpr_ = last.pre.alphaExpr_
        /\ hh.betaExpr_ = last.pre.betaExpr_
        /\ hh.lookupByInterpolation_ = last.pre.lookupByInterpolation_

(* Claims on the number of divisions *)

\* HHGate::getDivs
getDivs(g) == Len(g.A_) - 1

DivsSet ==
    /\ last.op = "divs"
    /\ last.caller = last.pre.originalChanId_
    /\ last.arg >= 3
    /\ ~aborted

\* C26: after divs is set to n >= 3 by the owner, reading divs returns n and
\* the tables A and B have n + 1 entries each, whatever the gate was
\* configured with before.
C26_DivsRoundTrip ==
    DivsSet =>
        /\ getDivs(hh) = last.arg
        /\ Len(hh.A_) = last.arg + 1
        /\ Len(hh.B_) = last.arg + 1

\* The same on the direct-table gates and on the gates without coefficient
\* vectors
C26_DivsRoundTripNoCoefficients ==
    (DivsSet /\ (last.pre.isDirectTable_ \/ Len(last.pre.alpha_) = 0
                   \/ Len(last.pre.beta_) = 0)) =>
        /\ getDivs(hh) = last.arg
        /\ Len(hh.A_) = last.arg + 1
        /\ Len(hh.B_) = last.arg + 1

(* Claims on the reads of the expression fields *)

\* HHGate::getAlphaExpr, getBetaExpr, getTauExpr, getInfExpr
getAlphaExpr(g) == IF g.form_ = 1 THEN g.alphaExpr_ ELSE ""

getBetaExpr(g) == IF g.form_ = 1 THEN g.betaExpr_ ELSE ""

getTauExpr(g) == IF g.form_ = 2 THEN g.alphaExpr_ ELSE ""

getInfExpr(g) == IF g.form_ = 2 THEN g.betaExpr_ ELSE ""

\* The strings last assigned through each of the four fields to a gate g that
\* the behaviours start from: such a gate received either alphaExpr and
\* betaExpr, or tauExpr and infExpr, or no expression
AssignedAtStart(g) ==
    [alphaExpr |-> IF g.form_ = 1 THEN g.alphaExpr_ ELSE "",
     betaExpr |-> IF g.form_ = 1 THEN g.betaExpr_ ELSE "",
     tauExpr |-> IF g.form_ = 2 THEN g.alphaExpr_ ELSE "",
     infExpr |-> IF g.form_ = 2 THEN g.betaExpr_ ELSE ""]

\* The same after the last operation, an assignment to one of the four fields
AssignedNow == [AssignedAtStart(last.pre) EXCEPT ![last.op] = last.arg]

ExprAssignedFirst ==
    /\ steps = 1
    /\ last.op \in ExprOps
    /\ last.caller = last.pre.originalChanId_
    /\ Compiles(last.arg, FALSE)

\* C27: after assignments to the four expression fields by the owner, in form
\* 1 alphaExpr and betaExpr read as the strings last assigned through them
\* (empty if none was) and tauExpr and infExpr read as empty; in form 2
\* likewise with the two pairs exchanged.
C27_ExprReads ==
    ExprAssignedFirst =>
        /\ hh.form_ = 1 =>
              /\ getAlphaExpr(hh) = AssignedNow.alphaExpr
              /\ getBetaExpr(hh) = AssignedNow.betaExpr
              /\ getTauExpr(hh) = "" /\ getInfExpr(hh) = ""
        /\ hh.form_ = 2 =>
              /\ getTauExpr(hh) = AssignedNow.tauExpr
              /\ getInfExpr(hh) = AssignedNow.infExpr
              /\ getAlphaExpr(hh) = "" /\ getBetaExpr(hh) = ""

\* The same for the assignments that stay within the form the gate had
C27_ExprReadsSameForm ==
    (/\ ExprAssignedFirst
     /\ last.pre.form_ = (IF last.op \in {"alphaExpr", "betaExpr"} THEN 1 ELSE 2)) =>
        /\ hh.form_ = 1 =>
              /\ getAlphaExpr(hh) = AssignedNow.alphaExpr
              /\ getBetaExpr(hh) = AssignedNow.betaExpr
              /\ getTauExpr(hh) = "" /\ getInfExpr(hh) = ""
        /\ hh.form_ = 2 =>
              /\ getTauExpr(hh) = AssignedNow.tauExpr
              /\ getInfExpr(hh) = AssignedNow.infExpr
              /\ getAlphaExpr(hh) = "" /\ getBetaExpr(hh) = ""

(* Claims on fixSingularities *)

\* The indices that fixSingularities reads for the run of singular entries
\* between prev and next: tab[prev], tab[jj - 1] for jj from prev + 1 on, and
\* tab[prev - 1] when the run reaches the end of the table
fixRunReads(tab, prev, next) ==
    (prev..(next - 2)) \cup (IF next >= Len(tab) THEN {prev - 1} ELSE {})

\* assert(prev >= 1) is reached and fails
fixRunAssertFails(tab, prev, next) == next >= Len(tab) /\ ~(prev >= 1)

\* The runs <<prev, next>> that the outer loop of fixSingularities meets
\* from index ii on
RECURSIVE fixRuns(_, _)
fixRuns(tab, ii) ==
    IF ii >= Len(tab) THEN {}
    ELSE IF ~Singular(tab[ii + 1]) THEN fixRuns(tab, ii + 1)
    ELSE {<<ii - 1, ScanNext(tab, ii + 1)>>} \cup fixRuns(tab, ScanNext(tab, ii + 1) + 1)

\* The two tables that tabFillExpr hands to fixSingularities in the last
\* operation
FixInputs ==
    exprLoop(last.pre, last.pre.A_, last.pre.B_, 0, Len(last.pre.A_) - 1,
             Div(Sub(last.pre.xmax_, last.pre.xmin_), R(Len(last.pre.A_) - 1)))

FixApplied ==
    /\ last.op = "tabFillExpr"
    /\ FormulaForm(last.pre)
    /\ Len(last.pre.A_) >= 2
    /\ Len(last.pre.A_) = Len(last.pre.B_)

\* fixSingularities on table tab stays within the table, passes its
\* assertion and leaves the valid entries, whatever an undefined read yields
FixSafe(tab) ==
    /\ \A r \in fixRuns(tab, 0) :
          /\ fixRunReads(tab, r[1], r[2]) \subseteq 0..(Len(tab) - 1)
          /\ ~fixRunAssertFails(tab, r[1], r[2])
    /\ \A gb \in Garbage :
          /\ ~fixSingularities(tab, FALSE, gb).ab
          /\ \A i \in DOMAIN tab :
                ~Singular(tab[i]) => fixSingularities(tab, TRUE, gb).tab[i] = tab[i]

\* C28: fixSingularities, applied to the tables that tabFillExpr has filled,
\* never reads or writes an index outside 0..size-1, never fails its
\* assertion prev >= 1, and leaves every valid entry unchanged.
C28_FixSingularitiesSafe ==
    FixApplied => (FixSafe(FixInputs[1]) /\ FixSafe(FixInputs[2]))

\* The part that holds: valid entries are left unchanged
C28_ValidEntriesKept ==
    FixApplied =>
        \A k \in {1, 2}, gb \in Garbage :
            \A i \in DOMAIN FixInputs[k] :
                ~Singular(FixInputs[k][i]) =>
                    fixSingularities(FixInputs[k], TRUE, gb).tab[i] = FixInputs[k][i]

\* The part that fails only on a first entry that is invalid or on a run
\* that reaches the end with fewer than two entries before it
C28_SafeOnInnerRuns ==
    FixApplied =>
        \A k \in {1, 2} :
            \A r \in fixRuns(FixInputs[k], 0) :
                (r[1] >= 1) =>
                    /\ fixRunReads(FixInputs[k], r[1], r[2]) \subseteq 0..(Len(FixInputs[k]) - 1)
                    /\ ~fixRunAssertFails(FixInputs[k], r[1], r[2])

(* Claims on the dependency indices passed to depValue *)

\* The dependency indices that process and reinit pass to depValue for slot s
DepsPassed(c, s) == {c.dep0[s], c.dep1[s]}

\* C29: on a channel whose active slots each carry one of the six recognised
\* index strings, process and reinit pass to depValue only dependency
\* indices in {0, 1, 2}, and the step is not stopped by depValue's assert(0).
C29_DepValueInRange ==
    (/\ last.op \in {"process", "reinit"}
     /\ \A s \in SlotSet : PreChan.power[s] > 0 => PreChan.index[s] \in DOMAIN IndexMap) =>
        /\ ~aborted
        /\ \A s \in QueriedSlots : DepsPassed(PreChan, s) \subseteq {0, 1, 2}

\* The same on the channels whose active slots carry two-input strings
C29_DepValueInRangeTwoInputs ==
    (/\ last.op \in {"process", "reinit"}
     /\ \A s \in SlotSet :
            PreChan.power[s] > 0 =>
                PreChan.index[s] \in {"VOLT_C1_INDEX", "VOLT_C2_INDEX", "C1_C2_INDEX"}) =>
        /\ ~aborted
        /\ \A s \in QueriedSlots : DepsPassed(PreChan, s) \subseteq {0, 1, 2}

(* Claims on references to destroyed gates *)

\* No channel of chans holds in a slot the address of a gate that hp has
\* as destroyed
NoDestroyedGateHeld(chans, hp) ==
    \A id \in DOMAIN chans, s \in SlotSet :
        chans[id].gate[s] # Null => hp[chans[id].gate[s]].live

LifeOps == {"copy", "createGate", "destroyGate"}

\* C30: copying a channel, createGate and destroyGate, on the original and
\* on the copy, leave no channel with a slot that refers to a destroyed gate.
C30_NoDestroyedGateHeld ==
    (/\ last.op \in LifeOps
     /\ ~aborted
     /\ NoDestroyedGateHeld(last.pre.chan, last.pre.heap)) =>
        NoDestroyedGateHeld(chan, heap)

\* The same while there is no copy, and for copy and createGate
C30_NoDestroyedGateHeldAlone ==
    (/\ last.op \in LifeOps
     /\ ~aborted
     /\ last.op = "destroyGate" => CopyId \notin DOMAIN last.pre.chan
     /\ NoDestroyedGateHeld(last.pre.chan, last.pre.heap)) =>
        NoDestroyedGateHeld(chan, heap)

====
